---- MODULE Spec2Model ----
(***************************************************************************)
(* POP3 mailbox driver (pop.c) and OpenSSL trust engine (ssl.c) of         *)
(* neomutt, as collected in src/test/muttlib.c.                            *)
(*                                                                         *)
(* SpecPop runs the mailbox driver: open, check, close, fetch-message,     *)
(* each with the server's answers drawn from bounded sets.                 *)
(* SpecTls runs the certificate verification callback and its prompt.      *)
(***************************************************************************)
EXTENDS Integers, Sequences, FiniteSets, TLC

(***************************************************************************)
(* Bounds of the model.                                                    *)
(***************************************************************************)
\* most lines a UIDL answer carries
MaxNum == 2
\* slots of the fallback body ring (pop_data->cache[POP_CACHE_LEN])
POP_CACHE_LEN == 2

\* how far the clock runs
MaxTime == 2

\* the UIDLs a server may list
UIDLs == {"AAA", "BBB"}

VARIABLES
  \* ---- mailbox driver ----
  hdrs,         \* ctx->hdrs[0 .. ctx->msgcount-1]
  clear_cache,  \* pop_data->clear_cache
  cache,        \* pop_data->cache[], the fallback body ring
  status,       \* pop_data->status
  pc,           \* where the driver is: closed, open_loop, open, fetch_loop
  msg,          \* the message pop_fetch_message is fetching
  uidl_list,    \* the lines of the last UIDL answer handed to fetch_uidl
  fetched,      \* whether the handler that ran last called pop_fetch_headers
  fh_ret,       \* what that pop_fetch_headers returned
  lost,         \* the count that pop_fetch_headers gave mutt_error
  unlinked,     \* the files the last handler's pop_clear_cache unlinked
  cleared,      \* the handler that returned last called pop_clear_cache itself
  cachecfg,     \* whether $message_cachedir and $header_cache name usable
                \* caches, and $message_cache_clean
  bcache,       \* the ids (UIDLs) of the bodies committed to the body cache
  hcache,       \* the keys (UIDLs) stored in the header cache
  sent,         \* what the running or last handler did in its last pass of
                \* its loop: the commands sent, each with its answer, the
                \* error shown, the body-cache delete that failed
  rv,           \* what the last handler returned (none while one is running)
  synced,       \* the handler that returned last was a pop_sync_mailbox that
                \* returned 0
  check_time,   \* pop_data->check_time
  now,          \* what time(NULL) returns
  PopCheckinterval, \* $pop_checkinterval
  \* ---- trust engine ----
  conf,            \* SslVerifyHost, SslVerifyDates, SslVerifyPartialChains,
                   \* CertificateFile (whether one is configured)
  SslSessionCerts, \* the certificates accepted in this process
  trust_file,      \* the certificates in the file CertificateFile names
  skip_marker,     \* the SkipModeExDataIndex slot of the connection's SSL
  last_pos,        \* static last_pos of ssl_verify_callback
  last_cert,       \* static last_cert of ssl_verify_callback
  host,            \* the HostExDataIndex slot: conn->account.host
  tpc,             \* where the handshake is: idle, verify, prompt
  cb,              \* the arguments of the last ssl_verify_callback
  menu,            \* the choices the open prompt offers
  cb_ret,          \* what that callback returned
  key,             \* the last choice made at the prompt
  accepted,        \* the certificates the user accepted at a prompt
  notice,          \* what the prompt told the user about saving: none,
                   \* saved (mutt_message), warning (mutt_error)
  tev,             \* the trust engine's handler that ran last
  \* ---- one call of hostname_match ----
  arg_hostname,    \* its first argument
  arg_certname,    \* its second argument
  match_ret,       \* what it returned: none before the call, true, false
  \* ---- the capability probes of one session ----
  cmd_uidl,        \* pop_data->cmd_uidl: 0 absent, 1 present, 2 unknown
  cmd_top,         \* pop_data->cmd_top, the same
  probe,           \* the call that ran last: the function, the commands it
                   \* sent with their answers, what it returned
  \* ---- one struct Connection and its peer ----
  conn,            \* fd, inbuf, bufpos, available
  stream,          \* the bytes the peer has sent that conn_read has not
                   \* returned yet
  closed_by,       \* why fd is -1: none (it is open), read, write, close
  inbuf_of_closed, \* inbuf holds what a connection read that has been
                   \* closed since
  io,              \* the call that ran last: the function, its result, the
                   \* line it stored, the bytes it took from inbuf, its
                   \* calls of conn_read and conn_write
  \* ---- one path buffer ----
  pathbuf,         \* the path, "/" and the components between them
  tidy_call,       \* the call that ran last: the function, the path it was
                   \* given, the length it returned
  \* ---- one run of the header loop of pop_fetch_headers ----
  hloop,           \* where the loop is and its variables: i, ret, hcached,
                   \* old_count, new_count, ctx->msgcount
  lhdrs,           \* ctx->hdrs: uidl, refno, index, where the envelope is
                   \* from (none, hcache, server), read, old
  listed_hdrs,     \* ctx->hdrs as the UIDL listing left it
  hcache_hdrs,     \* the header cache: the header stored under each UIDL
  bodies,          \* the ids the body cache holds
  MarkOld,         \* $mark_old
  \* ---- one call of pop_fetch_mail ----
  drain,           \* where the call is and its variables: i, last, msgs,
                   \* delanswer, rset
  drain_log        \* what it has sent and done so far, with the results

popvars == <<hdrs, clear_cache, cache, status, pc, msg, uidl_list,
             fetched, fh_ret, lost, unlinked, cleared, cachecfg, bcache,
             hcache, sent, rv, synced, check_time, now, PopCheckinterval>>

tlsvars == <<conf, SslSessionCerts, trust_file, skip_marker, last_pos,
             last_cert, host, tpc, cb, menu, cb_ret, key, accepted, notice,
             tev>>

hostvars == <<arg_hostname, arg_certname, match_ret>>

capvars == <<cmd_uidl, cmd_top, probe>>

sockvars == <<conn, stream, closed_by, inbuf_of_closed, io>>

pathvars == <<pathbuf, tidy_call>>

loopvars == <<hloop, lhdrs, listed_hdrs, hcache_hdrs, bodies, MarkOld>>

mailvars == <<drain, drain_log>>

fnvars == <<hostvars, capvars, sockvars, pathvars, loopvars, mailvars>>

vars == <<popvars, tlsvars, fnvars>>

(***************************************************************************)
(* The server's UIDL answer on a fresh connection: lines "<num> <uidl>",   *)
(* numbered 1, 2, ... as RFC 1939 numbers the maildrop; a server may list  *)
(* the messages in any UIDL order and may name one UIDL twice.             *)
(***************************************************************************)
LinesOf(u) == [k \in 1..Len(u) |-> [num |-> k, uidl |-> u[k]]]

Listings == { LinesOf(u) : u \in UNION { [1..n -> UIDLs] : n \in 0..MaxNum } }

\* return codes of pop_query / pop_fetch_data
RetCodes == {0, -1, -2, -3}
FailCodes == {-1, -2, -3}

(***************************************************************************)
(* Helpers on the header array.                                            *)
(***************************************************************************)
\* the first i with hdrs[i]->data equal to the line, 0 when there is none
FindUidl(h, u) ==
  IF \E i \in 1..Len(h) : h[i].uidl = u
  THEN CHOOSE i \in 1..Len(h) :
         /\ h[i].uidl = u
         /\ \A j \in 1..(i - 1) : h[j].uidl # u
  ELSE 0

mutt_new_header(u) ==
  [uidl |-> u, refno |-> 0, index |-> 0, deleted |-> FALSE]

\* a fetch_uidl that takes every line for a new message
fetch_uidl_no_lookup(s, line) ==
  [hdrs |-> Append(s.hdrs, [mutt_new_header(line.uidl) EXCEPT
                              !.refno = line.num, !.index = line.num - 1]),
   clear_cache |-> s.clear_cache]

\* a fetch_uidl that numbers new messages only and leaves a known one as it is
fetch_uidl_new_only(s, line) ==
  LET h == s.hdrs
      i == FindUidl(h, line.uidl)
      index == line.num
  IN IF i = 0
     THEN [hdrs |-> Append(h, [mutt_new_header(line.uidl) EXCEPT
                                 !.refno = index, !.index = index - 1]),
           clear_cache |-> s.clear_cache]
     ELSE [hdrs |-> h,
           clear_cache |-> s.clear_cache \/ (h[i].index # index - 1)]

\* fetch_uidl on one line; s is the header array, the new headers included,
\* and clear_cache
fetch_uidl(s, line) ==
  LET h == s.hdrs
      i == FindUidl(h, line.uidl)
      index == line.num
  IN IF i = 0
     THEN [hdrs |-> Append(h, [mutt_new_header(line.uidl) EXCEPT
                                 !.refno = index, !.index = index - 1]),
           clear_cache |-> s.clear_cache]
     ELSE [hdrs |-> [h EXCEPT ![i].refno = index, ![i].index = index - 1],
           clear_cache |-> s.clear_cache \/ (h[i].index # index - 1)]

\* pop_fetch_data(..., fetch_uidl, ctx): the callback on every line received
RECURSIVE FetchUidlLines(_, _)
FetchUidlLines(s, lines) ==
  IF lines = <<>> THEN s
  ELSE FetchUidlLines(fetch_uidl(s, Head(lines)), Tail(lines))

ResetRefno(h) == [i \in 1..Len(h) |-> [h[i] EXCEPT !.refno = -1]]

\* a loop that stops one record short: i < old_count - 1
MarkLost_short(h, old_count) ==
  [i \in 1..Len(h) |->
     IF i < old_count /\ h[i].refno = -1
     THEN [h[i] EXCEPT !.deleted = TRUE] ELSE h[i]]

\* the loop at "if (ret == 0)": a record still at refno -1 is flagged deleted
MarkLost(h, old_count) ==
  [i \in 1..Len(h) |->
     IF i <= old_count /\ h[i].refno = -1
     THEN [h[i] EXCEPT !.deleted = TRUE] ELSE h[i]]

\* a count of the flagged records instead of the records flagged now
CountLost_flagged(h, old_count) ==
  Cardinality({i \in 1..old_count : h[i].refno = -1 \/ h[i].deleted})

\* the variable deleted of that loop
CountLost(h, old_count) ==
  Cardinality({i \in 1..old_count : h[i].refno = -1})

(***************************************************************************)
(* pop_fetch_headers, in the two halves the UIDL answer splits it in.      *)
(* lines/ret: the UIDL answer and what pop_fetch_data returned for it;     *)
(* nread: how many new headers were read (header cache or pop_read_header) *)
(* before rc, a failure of pop_read_header.                                *)
(***************************************************************************)
\* up to "new_count = ctx->msgcount": the header array with the new headers
\* and clear_cache as the listing leaves them
pop_fetch_headers_uidl(h, lines) ==
  FetchUidlLines([hdrs |-> ResetRefno(h), clear_cache |-> FALSE], lines)

\* from "ctx->msgcount = old_count" to the return
pop_fetch_headers_rest(old_count, s, ret, nread, rc) ==
  LET new_count == Len(s.hdrs)
      ret2      == IF ret = 0 /\ nread < new_count - old_count THEN rc ELSE ret
      msgcount  == IF ret = 0 THEN old_count + nread ELSE old_count
  IN [hdrs        |-> SubSeq(IF ret = 0 THEN MarkLost(s.hdrs, old_count)
                             ELSE s.hdrs, 1, msgcount),
      clear_cache |-> s.clear_cache,
      lost        |-> IF ret = 0 THEN CountLost(s.hdrs, old_count) ELSE 0,
      ret         |-> IF ret2 < 0 THEN ret2 ELSE new_count - old_count]

(***************************************************************************)
(* pop_clear_cache                                                         *)
(***************************************************************************)
NoPath == "NULL"

\* unlink(path); FREE(&path): the slot's index stays in memory but is read
\* only under a path that is not NULL, so a freed slot is written as the
\* empty one.  body is the UIDL of the message whose RETR filled the file
FreeSlot == [index |-> 0, path |-> NoPath, body |-> "none"]

\* a loop that stops one slot short: i < POP_CACHE_LEN - 1
pop_clear_cache_short(c, flag) ==
  IF ~flag THEN c
  ELSE [i \in 0..(POP_CACHE_LEN - 1) |->
          IF i < POP_CACHE_LEN - 1 THEN FreeSlot ELSE c[i]]

pop_clear_cache(c, flag) ==
  IF ~flag THEN c
  ELSE [i \in 0..(POP_CACHE_LEN - 1) |-> FreeSlot]

\* the unlink() calls of pop_clear_cache
Unlinked(c, flag) ==
  IF ~flag THEN 0
  ELSE Cardinality({i \in 0..(POP_CACHE_LEN - 1) : c[i].path # NoPath})

EmptyRing == [i \in 0..(POP_CACHE_LEN - 1) |-> FreeSlot]

\* no message being fetched; path is the local array of pop_fetch_message
NoMsg == [msgno |-> 0, bcache |-> 1, path |-> NoPath]

\* no body cache, no header cache
NoCaches ==
  [MessageCachedir |-> FALSE, HeaderCache |-> FALSE,
   MessageCacheClean |-> FALSE]

\* the process starts with the caches configured as cfg and holding bc, hc
PopStart(cfg, bc, hc) ==
  /\ hdrs = <<>>
  /\ clear_cache = FALSE
  /\ cache = EmptyRing
  /\ status = "POP_NONE"
  /\ pc = "closed"
  /\ msg = NoMsg
  /\ uidl_list = <<>>
  /\ fetched = FALSE
  /\ fh_ret = 0
  /\ lost = 0
  /\ unlinked = 0
  /\ cleared = FALSE
  /\ cachecfg = cfg
  /\ bcache = bc
  /\ hcache = hc
  /\ sent = <<>>
  /\ rv = "none"
  /\ synced = FALSE
  /\ check_time = 0

\* the clock stands at t and $pop_checkinterval is one of iv
Clock(t, iv) == now = t /\ PopCheckinterval \in iv

PopInit == PopStart(NoCaches, {}, {}) /\ Clock(0, {0})

(***************************************************************************)
(* pop_open_connection and pop_reconnect (pop_lib.c).                      *)
(***************************************************************************)
\* check_uidl: the refno of the first header carrying the line's UIDL
check_uidl(h, line) ==
  LET i == FindUidl(h, line.uidl)
  IN IF i = 0 THEN h ELSE [h EXCEPT ![i].refno = line.num]

RECURSIVE CheckUidlLines(_, _)
CheckUidlLines(h, lines) ==
  IF lines = <<>> THEN h
  ELSE CheckUidlLines(check_uidl(h, Head(lines)), Tail(lines))

\* reopen, re-authenticate (ok), re-enumerate the UIDLs
pop_reconnect(h, ok, lines, ret) ==
  IF ~ok THEN [hdrs |-> h, ret |-> -1]
  ELSE [hdrs |-> CheckUidlLines(ResetRefno(h), lines), ret |-> ret]

\* what pop_fetch_data can return for UIDL after these lines: -ERR (-2)
\* comes before any line
UidlRets(lines) == IF lines = <<>> THEN {0, -1, -2, -3} ELSE {0, -1, -3}

\* a limit that forgets the interval
check_early_strict(ct, interval, t) == ct > t

\* "if ((pop_data->check_time + PopCheckinterval) > time(NULL)) return 0;"
check_early(ct, interval, t) == ct + interval > t

\* an entry of sent: the command, the record it is about (0 for none), its
\* argument, the answer and, for RETR, the writer the body went to
Cmd(c, i, arg, ret, w) ==
  [cmd |-> c, i |-> i, arg |-> arg, ret |-> ret, writer |-> w]

pop_reconnect_step ==
  /\ pc \in {"open_loop", "fetch_loop", "sync_loop"}
  /\ UNCHANGED <<tlsvars, fnvars, synced, now, PopCheckinterval>>
  /\ UNCHANGED check_time
  /\ status # "POP_CONNECTED"
  /\ \E ok \in BOOLEAN, lines \in Listings :
     \E ret \in UidlRets(lines) :
     \E r \in {pop_reconnect(hdrs, ok, lines, ret)} :
          /\ (~ok => lines = <<>> /\ ret = -1)
          /\ hdrs' = r.hdrs
          /\ uidl_list' = <<>>
          /\ status' = IF r.ret = 0 THEN "POP_CONNECTED" ELSE "POP_DISCONNECTED"
          /\ cache' = IF r.ret = 0 THEN pop_clear_cache(cache, clear_cache) ELSE cache
          /\ unlinked' = IF r.ret = 0 THEN Unlinked(cache, clear_cache) ELSE 0
          /\ pc' = IF r.ret = 0 THEN pc
                   ELSE IF pc = "open_loop" THEN "closed" ELSE "open"
          /\ msg' = IF r.ret = 0 THEN msg ELSE NoMsg
          /\ cleared' = FALSE
          /\ fetched' = FALSE
          /\ fh_ret' = 0
          /\ lost' = 0
          /\ sent' = <<>>
          /\ rv' = IF r.ret = 0 THEN "none" ELSE "-1"
          /\ UNCHANGED <<clear_cache, cachecfg, bcache, hcache>>

(***************************************************************************)
(* pop_open_mailbox                                                        *)
(***************************************************************************)
pop_open_mailbox ==
  /\ pc = "closed"
  /\ rv = "none"
  /\ UNCHANGED <<tlsvars, fnvars, synced, now, PopCheckinterval>>
  /\ UNCHANGED check_time
  /\ \E ok \in BOOLEAN :
       /\ hdrs' = <<>>
       /\ clear_cache' = FALSE
       /\ cache' = EmptyRing
       /\ status' = IF ok THEN "POP_CONNECTED" ELSE "POP_NONE"
       /\ pc' = IF ok THEN "open_loop" ELSE "closed"
       /\ cleared' = FALSE
       /\ msg' = NoMsg
       /\ uidl_list' = <<>>
       /\ fetched' = FALSE
       /\ fh_ret' = 0
       /\ lost' = 0
       /\ unlinked' = 0
       /\ sent' = <<>>
       /\ rv' = IF ok THEN "none" ELSE "-1"
       /\ UNCHANGED <<cachecfg, bcache, hcache>>

\* what the header loop of pop_fetch_headers can meet with n new headers:
\* all n read, or k < n read and then pop_read_header failing with rc
ReadOutcomes(n) ==
  {[nread |-> n, rc |-> 0]} \cup [nread : 0..(n - 1), rc : FailCodes]

\* mutt_hcache_fetch finds the header of this UIDL
hcache_hit(u) == cachecfg.HeaderCache /\ u \in hcache

\* mutt_hcache_store on each new header pop_read_header has read
hcache_stored(h, old_count, nread) ==
  IF cachecfg.HeaderCache
  THEN hcache \cup {h[i].uidl : i \in (old_count + 1)..(old_count + nread)}
  ELSE hcache

\* a check that also deletes the ids of the headers not seen in the session
Orphans_unlisted(h) ==
  {id \in bcache : \A i \in 1..Len(h) : h[i].uidl # id \/ h[i].refno = -1}

\* HC_FNAME "." HC_FEXT: the name of the header cache file when it lies in
\* the directory of the body cache
HcacheFile == "neomutt.hcache"

\* a check that knows nothing of the header cache file
Orphans_hcache_file(h) ==
  {id \in bcache : \A i \in 1..Len(h) : h[i].uidl # id}

\* msg_cache_check says delete: the id is not the header cache file and no
\* header of the context carries it
Orphans(h) ==
  {id \in bcache : id # HcacheFile /\ \A i \in 1..Len(h) : h[i].uidl # id}

\* the sweep of pop_fetch_headers runs: it returned success,
\* $message_cache_clean is set and there is a body cache to list
Sweeps(ret) ==
  ret >= 0 /\ cachecfg.MessageCacheClean /\ cachecfg.MessageCachedir

\* the caches over a pop_fetch_headers that had old_count headers, listed s,
\* read as o says and returned r; left: the orphans still there when
\* mutt_bcache_list stopped at a mutt_bcache_del that failed
pop_fetch_headers_caches(old_count, s, o, r, left) ==
  /\ o.rc # 0 => ~hcache_hit(s.hdrs[old_count + o.nread + 1].uidl)
  /\ ~Sweeps(r.ret) => left = {}
  /\ hcache' = hcache_stored(s.hdrs, old_count, o.nread)
  /\ bcache' = IF Sweeps(r.ret) THEN (bcache \ Orphans(r.hdrs)) \cup left
               ELSE bcache
  /\ sent' = IF left # {} THEN <<Cmd("bcache_del", 0, 0, -1, "none")>>
             ELSE <<>>
  /\ UNCHANGED cachecfg

\* a loop that returns after whatever pop_fetch_headers returned
open_mailbox_rv_once(ret) == IF ret >= 0 THEN "0" ELSE "-1"

\* "if (ret >= 0) return 0; if (ret < -1) { ... return -1; }": what
\* pop_open_mailbox returns after pop_fetch_headers returned ret, "none" if
\* the loop goes round again
open_mailbox_rv(ret) ==
  IF ret >= 0 THEN "0" ELSE IF ret < -1 THEN "-1" ELSE "none"

\* one pass of the while (true) loop with the connection up
pop_open_mailbox_loop ==
  /\ pc = "open_loop"
  /\ UNCHANGED <<tlsvars, fnvars, synced, now, PopCheckinterval>>
  /\ check_time' = now
  /\ status = "POP_CONNECTED"
  /\ \E lines \in Listings :
     \E s \in {pop_fetch_headers_uidl(hdrs, lines)} :
     \E ret \in UidlRets(lines) :
     \E o \in ReadOutcomes(IF ret = 0 THEN Len(s.hdrs) - Len(hdrs) ELSE 0) :
     \E r \in {pop_fetch_headers_rest(Len(hdrs), s, ret, o.nread, o.rc)} :
     \E left \in SUBSET Orphans(r.hdrs) :
          /\ hdrs' = r.hdrs
          /\ clear_cache' = r.clear_cache
          /\ lost' = r.lost
          /\ unlinked' = 0
          /\ fetched' = TRUE
          /\ fh_ret' = r.ret
          /\ uidl_list' = lines
          /\ status' = IF r.ret = -1 THEN "POP_DISCONNECTED" ELSE status
          /\ rv' = open_mailbox_rv(r.ret)
          /\ pc' = IF rv' = "0" THEN "open"
                   ELSE IF rv' = "-1" THEN "closed" ELSE "open_loop"
          /\ cleared' = FALSE
          /\ pop_fetch_headers_caches(Len(hdrs), s, o, r, left)
          /\ UNCHANGED <<cache, msg>>

(***************************************************************************)
(* pop_check_mailbox                                                       *)
(***************************************************************************)
\* check_time + PopCheckinterval > time(NULL): nothing is done
pop_check_mailbox_not_due ==
  /\ pc = "open"
  /\ rv = "none"
  /\ UNCHANGED <<tlsvars, fnvars, synced, now, PopCheckinterval>>
  /\ check_early(check_time, PopCheckinterval, now)
  /\ UNCHANGED check_time
  /\ cleared' = FALSE
  /\ uidl_list' = <<>>
  /\ fetched' = FALSE
  /\ fh_ret' = 0
  /\ lost' = 0
  /\ unlinked' = 0
  /\ sent' = <<>>
  /\ rv' = "0"
  /\ UNCHANGED <<hdrs, clear_cache, cache, status, pc, msg, cachecfg, bcache,
                 hcache>>

\* the check is due and pop_open_connection fails
pop_check_mailbox_no_connection ==
  /\ pc = "open"
  /\ rv = "none"
  /\ UNCHANGED <<tlsvars, fnvars, synced, now, PopCheckinterval>>
  /\ ~check_early(check_time, PopCheckinterval, now)
  /\ UNCHANGED check_time
  /\ status' = "POP_DISCONNECTED"
  /\ cleared' = FALSE
  /\ uidl_list' = <<>>
  /\ fetched' = FALSE
  /\ fh_ret' = 0
  /\ lost' = 0
  /\ unlinked' = 0
  /\ sent' = <<>>
  /\ rv' = "-1"
  /\ UNCHANGED <<hdrs, clear_cache, cache, pc, msg, cachecfg, bcache, hcache>>

\* the check is due and the connection is reopened
pop_check_mailbox ==
  /\ pc = "open"
  /\ rv = "none"
  /\ UNCHANGED <<tlsvars, fnvars, synced, now, PopCheckinterval>>
  /\ ~check_early(check_time, PopCheckinterval, now)
  /\ check_time' = now
  /\ \E lines \in Listings :
     \E s \in {pop_fetch_headers_uidl(hdrs, lines)} :
     \E ret \in UidlRets(lines) :
     \E o \in ReadOutcomes(IF ret = 0 THEN Len(s.hdrs) - Len(hdrs) ELSE 0) :
     \E r \in {pop_fetch_headers_rest(Len(hdrs), s, ret, o.nread, o.rc)} :
     \E left \in SUBSET Orphans(r.hdrs) :
          /\ hdrs' = r.hdrs
          /\ clear_cache' = r.clear_cache
          /\ lost' = r.lost
          /\ fetched' = TRUE
          /\ fh_ret' = r.ret
          /\ uidl_list' = lines
          /\ cache' = pop_clear_cache(cache, r.clear_cache)
          /\ unlinked' = Unlinked(cache, r.clear_cache)
          /\ status' = IF r.ret = -1 THEN "POP_DISCONNECTED" ELSE "POP_CONNECTED"
          /\ rv' = IF r.ret < 0 THEN "-1"
                   ELSE IF r.ret > 0 THEN "MUTT_NEW_MAIL" ELSE "0"
          /\ cleared' = TRUE
          /\ pop_fetch_headers_caches(Len(hdrs), s, o, r, left)
          /\ UNCHANGED <<pc, msg>>

(***************************************************************************)
(* pop_close_mailbox                                                       *)
(***************************************************************************)
pop_close_mailbox ==
  /\ pc = "open"
  /\ rv = "none"
  /\ UNCHANGED <<tlsvars, fnvars, synced, now, PopCheckinterval>>
  /\ UNCHANGED check_time
  /\ status' = "POP_NONE"
  /\ clear_cache' = TRUE
  /\ cache' = pop_clear_cache(cache, TRUE)
  /\ unlinked' = Unlinked(cache, TRUE)
  /\ pc' = "closed"
  /\ cleared' = TRUE
  /\ uidl_list' = <<>>
  /\ fetched' = FALSE
  /\ fh_ret' = 0
  /\ lost' = 0
  /\ sent' = <<>>
  /\ rv' = "0"
  /\ UNCHANGED <<hdrs, msg, cachecfg, bcache, hcache>>

(***************************************************************************)
(* pop_fetch_message.  A ring slot's path is NULL, the name of a temp file *)
(* that is there ("tmp"), or the name of one that was unlinked             *)
(* ("unlinked").                                                           *)
(***************************************************************************)
Slot(h) == h.index % POP_CACHE_LEN

\* mutt_bcache_get finds the body
bcache_hit(u) == cachecfg.MessageCachedir /\ u \in bcache

\* "if (bcache) mutt_bcache_commit(...) else { cache->index, cache->path }"
CommitTo(bc, h, path) ==
  IF bc = 1
  THEN [bcache |-> bcache \cup {h.uidl}, cache |-> cache]
  ELSE [bcache |-> bcache,
        cache  |-> [cache EXCEPT ![Slot(h)] =
                      [index |-> h.index, path |-> path, body |-> h.uidl]]]

\* "if (cache->path) { if (cache->index == h->index)"
ring_hit(c, h) == c.path # NoPath /\ c.index = h.index

\* up to the while (true) loop: body cache, then the fallback ring
pop_fetch_message ==
  /\ pc = "open"
  /\ rv = "none"
  /\ UNCHANGED <<tlsvars, fnvars, synced, now, PopCheckinterval>>
  /\ UNCHANGED check_time
  /\ \E msgno \in 1..Len(hdrs) :
       LET h == hdrs[msgno]
           c == cache[Slot(h)]
       IN /\ uidl_list' = <<>>
          /\ fetched' = FALSE
          /\ fh_ret' = 0
          /\ lost' = 0
          /\ unlinked' = 0
          /\ cleared' = FALSE
          /\ UNCHANGED <<hdrs, clear_cache, status, cachecfg, bcache, hcache>>
          /\ IF bcache_hit(h.uidl)
             THEN /\ rv' = "0"
                  /\ sent' = <<>>
                  /\ UNCHANGED <<cache, pc, msg>>
             ELSE IF ring_hit(c, h)
             THEN /\ rv' = IF c.path = "tmp" THEN "0" ELSE "-1"
                  /\ sent' = <<Cmd("fopen", msgno, h.index,
                                   IF c.path = "tmp" THEN 0 ELSE -3, c.body)>>
                  /\ UNCHANGED <<cache, pc, msg>>
             ELSE /\ sent' = <<>>
                  /\ cache' = [cache EXCEPT ![Slot(h)] = FreeSlot]
                  /\ pc' = "fetch_loop"
                  /\ msg' = [msgno |-> msgno, bcache |-> 1, path |-> NoPath]
                  /\ rv' = "none"

\* a check that takes every refno for good
refno_incorrect_never(h) == FALSE

\* "if (h->refno < 0)": the record was not seen in this session
refno_incorrect(h) == h.refno < 0

\* a loop that goes round again after every failure of RETR
fetch_retry_any(ret) == ret # 0

\* the loop goes round again: RETR failed, and neither with -2 nor with -3
fetch_retry(ret) == ret # 0 /\ ret # -2 /\ ret # -3

\* the handler returns failure
FetchFails ==
  /\ pc' = "open"
  /\ msg' = NoMsg
  /\ rv' = "-1"
  /\ UNCHANGED <<cache, status, bcache>>

\* one pass of the while (true) loop with the connection up.  put: whether
\* mutt_bcache_put opens a writer; tmp: whether the temp file can be opened;
\* ret: what pop_fetch_data returns for RETR
pop_fetch_message_loop ==
  /\ pc = "fetch_loop"
  /\ UNCHANGED <<tlsvars, fnvars, synced, now, PopCheckinterval>>
  /\ UNCHANGED check_time
  /\ status = "POP_CONNECTED"
  /\ \E put \in BOOLEAN, tmp \in BOOLEAN, ret \in RetCodes :
       LET h    == hdrs[msg.msgno]
           bc   == IF put THEN msg.bcache ELSE 0
           path == IF put THEN msg.path ELSE "tmp"
           retr == Cmd("RETR", msg.msgno, h.refno, ret,
                       IF put THEN "bcache" ELSE "tmp")
       IN /\ put => cachecfg.MessageCachedir
          /\ uidl_list' = <<>>
          /\ fetched' = FALSE
          /\ fh_ret' = 0
          /\ lost' = 0
          /\ unlinked' = 0
          /\ cleared' = FALSE
          /\ UNCHANGED <<hdrs, clear_cache, cachecfg, hcache>>
          /\ IF refno_incorrect(h)
             THEN FetchFails /\ sent' = <<Cmd("mutt_error", msg.msgno, 0, 0, "none")>>
             ELSE IF ~put /\ ~tmp
             THEN FetchFails /\ sent' = <<>>
             ELSE IF ret = 0
             THEN /\ \E r \in {CommitTo(bc, h, path)} :
                       bcache' = r.bcache /\ cache' = r.cache
                  /\ pc' = "open"
                  /\ msg' = NoMsg
                  /\ sent' = <<retr>>
                  /\ rv' = "0"
                  /\ UNCHANGED status
             ELSE IF fetch_retry(ret)
             THEN /\ status' = "POP_DISCONNECTED"
                  /\ msg' = [msg EXCEPT !.bcache = bc,
                                        !.path = IF bc = 0 THEN "unlinked"
                                                 ELSE msg.path]
                  /\ sent' = <<retr>>
                  /\ rv' = "none"
                  /\ UNCHANGED <<cache, pc, bcache>>
             ELSE FetchFails /\ sent' = <<retr>>

(***************************************************************************)
(* pop_sync_mailbox.  stop: the record whose DELE the server does not      *)
(* answer +OK (0: there is none), rc: what pop_query returns for it;       *)
(* quit: what pop_query returns for QUIT; changed: the records whose       *)
(* changed flag is set.                                                    *)
(***************************************************************************)
\* a loop that does not look at refno
sync_dele_any(h, i, stop, rc) ==
  [k \in 1..Cardinality({j \in i..Len(h) : h[j].deleted
                                           /\ (stop = 0 \/ j <= stop)}) |->
     LET j == CHOOSE j \in i..Len(h) :
                /\ h[j].deleted
                /\ Cardinality({m \in i..j : h[m].deleted}) = k
     IN Cmd("DELE", j, h[j].refno, IF j = stop THEN rc ELSE 0, "none")]

\* the for loop from record i on: DELE for every record flagged deleted
\* whose refno is not -1, until one is not answered +OK
RECURSIVE sync_dele(_, _, _, _)
sync_dele(h, i, stop, rc) ==
  IF i > Len(h) THEN <<>>
  ELSE IF h[i].deleted /\ h[i].refno # -1
  THEN IF i = stop
       THEN <<Cmd("DELE", i, h[i].refno, rc, "none")>>
       ELSE <<Cmd("DELE", i, h[i].refno, 0, "none")>>
              \o sync_dele(h, i + 1, stop, rc)
  ELSE sync_dele(h, i + 1, stop, rc)

\* a QUIT that is sent whatever the DELEs were answered
sync_quit_always(ret, quit) == <<Cmd("QUIT", 0, 0, quit, "none")>>

\* "if (ret == 0) { ... QUIT ... }"
sync_quit(ret, quit) ==
  IF ret = 0 THEN <<Cmd("QUIT", 0, 0, quit, "none")>> ELSE <<>>

\* the records a pass may stop at
SyncStops(h) ==
  {0} \cup {i \in 1..Len(h) : h[i].deleted /\ h[i].refno # -1}

\* the UIDLs whose DELE was answered +OK
Deleted(h, log) ==
  {h[log[k].i].uidl : k \in {m \in 1..Len(log) :
                               log[m].cmd = "DELE" /\ log[m].ret = 0}}

\* the entry: check_time = 0, then the loop
pop_sync_mailbox ==
  /\ pc = "open"
  /\ rv = "none"
  /\ UNCHANGED <<tlsvars, fnvars, synced, now, PopCheckinterval>>
  /\ check_time' = 0
  /\ pc' = "sync_loop"
  /\ uidl_list' = <<>>
  /\ fetched' = FALSE
  /\ fh_ret' = 0
  /\ lost' = 0
  /\ unlinked' = 0
  /\ cleared' = FALSE
  /\ sent' = <<>>
  /\ rv' = "none"
  /\ UNCHANGED <<hdrs, clear_cache, cache, status, msg, cachecfg, bcache,
                 hcache>>

\* one pass of the while (true) loop with the connection up
pop_sync_mailbox_loop ==
  /\ pc = "sync_loop"
  /\ UNCHANGED <<tlsvars, fnvars, synced, now, PopCheckinterval>>
  /\ UNCHANGED check_time
  /\ status = "POP_CONNECTED"
  /\ \E stop \in SyncStops(hdrs), rc \in {-1, -2}, quit \in {0, -1, -2},
        changed \in SUBSET (1..Len(hdrs)) :
       LET dele == sync_dele(hdrs, 1, stop, rc)
           ret1 == IF stop = 0 THEN 0 ELSE rc
           log  == dele \o sync_quit(ret1, quit)
           ret  == IF log = <<>> THEN 0 ELSE log[Len(log)].ret
           last == IF stop = 0 THEN Len(hdrs) ELSE stop
           gone == Deleted(hdrs, dele)
           kept == {hdrs[i].uidl : i \in {j \in changed : j <= last}}
       IN /\ ~cachecfg.HeaderCache => changed = {}
          /\ stop = 0 => rc = -1
          /\ stop # 0 => quit = 0
          /\ sent' = log
          /\ hcache' = IF cachecfg.HeaderCache
                       THEN (hcache \ gone) \cup kept ELSE hcache
          /\ bcache' = IF cachecfg.MessageCachedir
                       THEN bcache \ gone ELSE bcache
          /\ uidl_list' = <<>>
          /\ fetched' = FALSE
          /\ fh_ret' = 0
          /\ lost' = 0
          /\ UNCHANGED <<hdrs, msg, cachecfg>>
          /\ IF ret = 0
             THEN /\ clear_cache' = TRUE
                  /\ cache' = pop_clear_cache(cache, TRUE)
                  /\ unlinked' = Unlinked(cache, TRUE)
                  /\ cleared' = TRUE
                  /\ status' = "POP_DISCONNECTED"
                  /\ pc' = "open"
                  /\ rv' = "0"
             ELSE /\ unlinked' = 0
                  /\ cleared' = FALSE
                  /\ UNCHANGED <<clear_cache, cache>>
                  /\ IF ret = -2
                     THEN /\ pc' = "open"
                          /\ rv' = "-1"
                          /\ UNCHANGED status
                     ELSE /\ status' = "POP_DISCONNECTED"
                          /\ rv' = "none"
                          /\ UNCHANGED pc

(***************************************************************************)
(* The caller of the mx_pop_ops handlers has the result of the handler     *)
(* that returned; what is remembered of that handler's run is dropped.     *)
(***************************************************************************)
mx_pop_ops_return ==
  /\ rv # "none"
  /\ UNCHANGED <<tlsvars, fnvars, now, PopCheckinterval>>
  /\ UNCHANGED check_time
  /\ synced' = (rv = "0" /\ sent # <<>> /\ sent[Len(sent)].cmd = "QUIT")
  /\ rv' = "none"
  /\ sent' = <<>>
  /\ uidl_list' = <<>>
  /\ fetched' = FALSE
  /\ fh_ret' = 0
  /\ lost' = 0
  /\ unlinked' = 0
  /\ cleared' = FALSE
  /\ UNCHANGED <<hdrs, clear_cache, cache, status, pc, msg, cachecfg, bcache,
                 hcache>>

NextPop ==
  \/ mx_pop_ops_return
  \/ pop_open_mailbox
  \/ pop_open_mailbox_loop
  \/ pop_reconnect_step
  \/ pop_check_mailbox_not_due
  \/ pop_check_mailbox_no_connection
  \/ pop_check_mailbox
  \/ pop_close_mailbox
  \/ pop_fetch_message
  \/ pop_fetch_message_loop

(***************************************************************************)
(* The trust engine (ssl.c).  A certificate is what the engine reads of    *)
(* it: the names compare_certificates compares, its SHA-256 digest, where  *)
(* the current time lies in its validity period, and the names check_host  *)
(* matches.  A name is the sequence of its characters.                     *)
(***************************************************************************)
\* the deepest chain position a callback is made for
MaxDepth == 1
\* the longest name handed to hostname_match, in characters
MaxName == 5

N_ab   == <<"a", ".", "b">>
N_AB   == <<"A", ".", "B">>
N_cb   == <<"c", ".", "b">>
N_wb   == <<"*", ".", "b">>
N_wdot == <<"*", ".">>
N_b    == <<"b">>

Hosts == {N_ab, N_b}

\* a leaf for a.b: the second dNSName matches a.b but for its case
c_mail ==
  [subject |-> "mail", issuer |-> "ca", md |-> "d1", validity |-> "valid",
   san |-> <<N_cb, N_AB>>, cn |-> N_cb]

\* the same names on another certificate, expired, with no dNSName
c_old ==
  [subject |-> "mail", issuer |-> "ca", md |-> "d2", validity |-> "expired",
   san |-> <<>>, cn |-> N_cb]

\* a certificate not yet valid whose Common Name is a wildcard
c_ca ==
  [subject |-> "ca", issuer |-> "ca", md |-> "d3", validity |-> "notyet",
   san |-> <<N_wdot>>, cn |-> N_wb]

Certs == {c_mail, c_old, c_ca}

\* last_cert == NULL
NoCert ==
  [subject |-> "", issuer |-> "", md |-> "", validity |-> "valid",
   san |-> <<>>, cn |-> <<>>]

\* quadoptions are read as "!= MUTT_NO"; CertificateFile as "is set"
Confs ==
  [SslVerifyHost : BOOLEAN, SslVerifyDates : BOOLEAN,
   SslVerifyPartialChains : BOOLEAN, CertificateFile : BOOLEAN]

\* what the user's certificate file may hold when the process starts
TrustFiles == {<<>>, <<c_mail, c_old>>}

\* the build defines HAVE_SSL_PARTIAL_CHAIN
HAVE_SSL_PARTIAL_CHAIN == TRUE

\* peermd is the digest of peercert
compare_certificates(cert, peercert) ==
  /\ cert.subject = peercert.subject
  /\ cert.issuer = peercert.issuer
  /\ cert.md = peercert.md

\* a check that the $ssl_verify_dates setting does not switch off
check_certificate_expiration_always(peercert) ==
  peercert.validity = "valid"

check_certificate_expiration(peercert) ==
  IF conf.SslVerifyDates
  THEN peercert.validity # "notyet" /\ peercert.validity # "expired"
  ELSE TRUE

\* tolower() on the characters the names are made of
Lower(c) == IF c = "A" THEN "a" ELSE IF c = "B" THEN "b" ELSE c

\* a wildcard that stands for any number of leading labels
hostname_match_labels(hostname, certname) ==
  LET wild == Len(certname) >= 2 /\ certname[1] = "*" /\ certname[2] = "."
      cmp1 == IF wild THEN SubSeq(certname, 3, Len(certname)) ELSE certname
  IN IF cmp1 = <<>> \/ hostname = <<>> THEN FALSE
     ELSE IF wild
     THEN \E i \in 1..(Len(hostname) - 1) :
            /\ hostname[i] = "."
            /\ (Len(hostname) - i) = Len(cmp1)
            /\ \A j \in 1..Len(cmp1) :
                 Lower(cmp1[j]) = Lower(hostname[i + j])
     ELSE /\ Len(cmp1) = Len(hostname)
          /\ \A j \in 1..Len(cmp1) : Lower(cmp1[j]) = Lower(hostname[j])

\* strcasecmp(a, b) == 0
StrCaseEq(a, b) ==
  /\ Len(a) = Len(b)
  /\ \A i \in 1..Len(a) : Lower(a[i]) = Lower(b[i])

\* strchr(hostname, '.'): the place of the first dot, 0 for NULL
FirstDot(n) ==
  IF \E i \in 1..Len(n) : n[i] = "."
  THEN CHOOSE i \in 1..Len(n) :
         n[i] = "." /\ \A j \in 1..(i - 1) : n[j] # "."
  ELSE 0

hostname_match(hostname, certname) ==
  LET wild == Len(certname) >= 2 /\ certname[1] = "*" /\ certname[2] = "."
      dot  == FirstDot(hostname)
      cmp1 == IF wild THEN SubSeq(certname, 3, Len(certname)) ELSE certname
      cmp2 == IF wild THEN SubSeq(hostname, dot + 1, Len(hostname))
              ELSE hostname
  IN IF wild /\ dot = 0 THEN FALSE
     ELSE IF cmp1 = <<>> \/ cmp2 = <<>> THEN FALSE
     ELSE StrCaseEq(cmp1, cmp2)

\* a check that passes every certificate
check_host_any(x509cert, hostname) == TRUE

\* the dNSNames first, then the Common Name
check_host(x509cert, hostname) ==
  LET match_found ==
        \E i \in 1..Len(x509cert.san) : hostname_match(hostname, x509cert.san[i])
  IN IF match_found THEN TRUE ELSE hostname_match(hostname, x509cert.cn)

\* a scan that stops before the oldest entry: i-- > 1
check_certificate_cache_short(peercert) ==
  \E i \in 2..Len(SslSessionCerts) :
    compare_certificates(SslSessionCerts[i], peercert)

check_certificate_cache(peercert) ==
  \E i \in 1..Len(SslSessionCerts) :
    compare_certificates(SslSessionCerts[i], peercert)

check_certificate_file(peercert) ==
  IF ~conf.CertificateFile THEN FALSE
  ELSE \E i \in 1..Len(trust_file) :
         /\ compare_certificates(trust_file[i], peercert)
         /\ check_certificate_expiration(trust_file[i])

check_certificate_by_digest(peercert) ==
  check_certificate_expiration(peercert) /\ check_certificate_file(peercert)

\* a prompt that accepts without remembering the certificate
ssl_cache_trusted_cert_none(c) == SslSessionCerts

\* a cache that holds the last accepted certificate only
ssl_cache_trusted_cert_last(c) == <<c>>

ssl_cache_trusted_cert(c) == Append(SslSessionCerts, c)

\* a prompt that lets the leaf be skipped too
AllowSkip_any(idx) ==
  HAVE_SSL_PARTIAL_CHAIN /\ conf.SslVerifyPartialChains

\* ALLOW_SKIP of interactive_check_cert
AllowSkip(idx) ==
  HAVE_SSL_PARTIAL_CHAIN /\ idx # 0 /\ conf.SslVerifyPartialChains

\* a prompt that does not look at what its caller allows
AllowAlways_any_caller(cert, allow_always) ==
  conf.CertificateFile /\ check_certificate_expiration(cert)

\* a prompt that does not look at the certificate's dates
AllowAlways_undated(cert, allow_always) ==
  allow_always /\ conf.CertificateFile

\* allow_always of interactive_check_cert, from the caller's allow_always
AllowAlways(cert, allow_always) ==
  allow_always /\ conf.CertificateFile /\ check_certificate_expiration(cert)

NoMenu == [allow_always |-> FALSE, ALLOW_SKIP |-> FALSE]
NoCall == [cert |-> NoCert, pos |-> 0, preverify_ok |-> TRUE]

\* the process starts with configuration c and certificate file f
TlsInit(c, f) ==
  /\ conf = c
  /\ SslSessionCerts = <<>>
  /\ trust_file = f
  /\ skip_marker = FALSE
  /\ last_pos = 0
  /\ last_cert = NoCert
  /\ host = N_ab
  /\ tpc = "idle"
  /\ cb = NoCall
  /\ menu = NoMenu
  /\ cb_ret = "none"
  /\ key = "none"
  /\ accepted = {}
  /\ notice = "none"
  /\ tev = "init"

TlsDefaults ==
  TlsInit([SslVerifyHost |-> TRUE, SslVerifyDates |-> TRUE,
           SslVerifyPartialChains |-> FALSE, CertificateFile |-> FALSE], <<>>)

(***************************************************************************)
(* ssl_negotiate up to SSL_connect: the host and an empty skip marker are  *)
(* stored in the SSL, the callback is installed.                           *)
(***************************************************************************)
ssl_negotiate ==
  /\ tpc = "idle"
  /\ UNCHANGED <<popvars, fnvars>>
  /\ \E h \in Hosts :
       /\ host' = h
       /\ skip_marker' = FALSE
       /\ tpc' = "verify"
       /\ tev' = "ssl_negotiate"
       /\ notice' = "none"
       /\ UNCHANGED <<conf, SslSessionCerts, trust_file, last_pos, last_cert,
                      cb, menu, cb_ret, key, accepted>>

\* SSL_connect returns: no further callback on this connection
ssl_negotiate_end ==
  /\ tpc = "verify"
  /\ UNCHANGED <<popvars, fnvars>>
  /\ tpc' = "idle"
  /\ tev' = "ssl_negotiate_end"
  /\ notice' = "none"
  /\ UNCHANGED <<conf, SslSessionCerts, trust_file, skip_marker, last_pos,
                 last_cert, host, cb, menu, cb_ret, key, accepted>>

\* ssl_socket_close: the SSL and its context are freed, the certificates
\* accepted in this process are held on to
ssl_socket_close ==
  /\ tpc = "idle"
  /\ UNCHANGED <<popvars, fnvars>>
  /\ tev' = "ssl_socket_close"
  /\ notice' = "none"
  /\ UNCHANGED <<conf, SslSessionCerts, trust_file, skip_marker, last_pos,
                 last_cert, host, tpc, cb, menu, cb_ret, key, accepted>>

(***************************************************************************)
(* ssl_verify_callback, up to its return or to the menu loop of            *)
(* interactive_check_cert.                                                 *)
(***************************************************************************)
\* the callback returns 1
Return1 ==
  /\ cb_ret' = "accept"
  /\ tpc' = "verify"
  /\ menu' = NoMenu

\* interactive_check_cert(cert, pos, len, ssl, allow_always) opens its menu
OpenPrompt(cert, pos, allow_always) ==
  /\ cb_ret' = "none"
  /\ tpc' = "prompt"
  /\ menu' = [allow_always |-> AllowAlways(cert, allow_always),
              ALLOW_SKIP   |-> AllowSkip(pos)]
  /\ UNCHANGED skip_marker

\* a test that takes the last certificate at any depth for a duplicate
duplicate_skipped_any_depth(skip_mode, preverify_ok, cert, pos) ==
  /\ HAVE_SSL_PARTIAL_CHAIN
  /\ conf.SslVerifyPartialChains
  /\ skip_mode /\ preverify_ok
  /\ last_cert # NoCert
  /\ compare_certificates(cert, last_cert)

\* "ignoring duplicate skipped certificate"
duplicate_skipped(skip_mode, preverify_ok, cert, pos) ==
  /\ HAVE_SSL_PARTIAL_CHAIN
  /\ conf.SslVerifyPartialChains
  /\ skip_mode /\ preverify_ok /\ pos = last_pos
  /\ last_cert # NoCert
  /\ compare_certificates(cert, last_cert)

\* a test that trusts preverify_ok whatever was skipped before
not_verified_preverify(preverify_ok, skip_mode) == ~preverify_ok

\* "if (!preverify_ok || skip_mode)"
not_verified(preverify_ok, skip_mode) == ~preverify_ok \/ skip_mode

ssl_verify_callback ==
  /\ tpc = "verify"
  /\ UNCHANGED <<popvars, fnvars>>
  /\ \E preverify_ok \in BOOLEAN, cert \in Certs, pos \in 0..MaxDepth :
       LET skip_mode == skip_marker
           dup == duplicate_skipped(skip_mode, preverify_ok, cert, pos)
           remember == /\ HAVE_SSL_PARTIAL_CHAIN
                       /\ conf.SslVerifyPartialChains
                       /\ ~dup
       IN /\ cb' = [cert |-> cert, pos |-> pos, preverify_ok |-> preverify_ok]
          /\ tev' = "ssl_verify_callback"
          /\ notice' = "none"
          /\ key' = "none"
          /\ last_pos' = IF remember THEN pos ELSE last_pos
          /\ last_cert' = IF remember THEN cert ELSE last_cert
          /\ UNCHANGED <<conf, SslSessionCerts, trust_file, host, accepted>>
          /\ IF dup
             THEN Return1 /\ UNCHANGED skip_marker
             ELSE IF check_certificate_cache(cert)
             THEN Return1 /\ skip_marker' = FALSE
             ELSE IF pos = 0 /\ conf.SslVerifyHost /\ ~check_host(cert, host)
             THEN OpenPrompt(cert, pos, FALSE)
             ELSE IF not_verified(preverify_ok, skip_mode)
             THEN IF conf.CertificateFile /\ check_certificate_by_digest(cert)
                  THEN Return1 /\ skip_marker' = FALSE
                  ELSE OpenPrompt(cert, pos, TRUE)
             ELSE Return1 /\ UNCHANGED skip_marker

(***************************************************************************)
(* interactive_check_cert: one pass of the while (!done) loop, on the      *)
(* choice mutt_menu_loop returns.                                          *)
(***************************************************************************)
Keys == {"abort", "reject", "exit", "once", "always", "skip", "other"}

\* done stays 0: the menu loop goes on
StayOpen ==
  /\ notice' = "none"
  /\ UNCHANGED <<SslSessionCerts, trust_file, skip_marker, tpc, menu, cb_ret,
                 accepted>>

\* case OP_MAX + 2: done = 2, the callback returns 1
AcceptOnce ==
  /\ skip_marker' = FALSE
  /\ SslSessionCerts' = ssl_cache_trusted_cert(cb.cert)
  /\ accepted' = accepted \cup {cb.cert}
  /\ cb_ret' = "accept"
  /\ tpc' = "verify"
  /\ menu' = NoMenu

interactive_check_cert ==
  /\ tpc = "prompt"
  /\ UNCHANGED <<popvars, fnvars>>
  /\ \E k \in Keys :
       /\ key' = k
       /\ tev' = "interactive_check_cert"
       /\ UNCHANGED <<conf, last_pos, last_cert, host, cb>>
       /\ IF k \in {"abort", "reject", "exit"}
          THEN /\ cb_ret' = "reject"
               /\ tpc' = "idle"
               /\ menu' = NoMenu
               /\ notice' = "none"
               /\ UNCHANGED <<SslSessionCerts, trust_file, skip_marker, accepted>>
          ELSE IF k = "always"
          THEN IF ~menu.allow_always
               THEN StayOpen
               ELSE /\ \E saved \in BOOLEAN :
                         /\ trust_file' = IF saved
                                          THEN Append(trust_file, cb.cert)
                                          ELSE trust_file
                         /\ notice' = IF saved THEN "saved" ELSE "warning"
                    /\ AcceptOnce
          ELSE IF k = "once"
          THEN AcceptOnce /\ notice' = "none" /\ UNCHANGED trust_file
          ELSE IF k = "skip"
          THEN IF ~menu.ALLOW_SKIP
               THEN StayOpen
               ELSE /\ skip_marker' = TRUE
                    /\ cb_ret' = "accept"
                    /\ tpc' = "verify"
                    /\ menu' = NoMenu
                    /\ notice' = "none"
                    /\ UNCHANGED <<SslSessionCerts, trust_file, accepted>>
          ELSE StayOpen

NextTls ==
  \/ ssl_negotiate
  \/ ssl_verify_callback
  \/ interactive_check_cert
  \/ ssl_negotiate_end
  \/ ssl_socket_close

(***************************************************************************)
(* hostname_match on its own: check_host hands it the connection's host    *)
(* and a name of the certificate; here the two are any names up to a       *)
(* length.                                                                 *)
(***************************************************************************)
\* the sequences over A of at most n elements
SeqsUpTo(A, n) == UNION { [1..k -> A] : k \in 0..n }

\* hostnames: letters in either case and dots
HostNames == SeqsUpTo({"a", "A", "."}, MaxName)

\* certificate names, with and without a leading "*."
CertNames ==
  LET body == SeqsUpTo({"a", ".", "*"}, MaxName - 2)
  IN body \cup { <<"*", ".">> \o b : b \in body }

(***************************************************************************)
(* The capability probes: the UIDL probe of pop_fetch_headers and          *)
(* pop_read_header, called on a session whose capabilities start unknown.  *)
(***************************************************************************)
NoProbe == [fn |-> "none", sent |-> <<>>, rc |-> 0, count |-> 0, listed |-> 0,
            env |-> FALSE]

CapIdle == cmd_uidl = 2 /\ cmd_top = 2 /\ probe = NoProbe

\* a probe that takes every answer, whatever is known already
uidl_capability_reprobe(c, ret) ==
  IF ret = 0 THEN 1 ELSE IF ret = -2 THEN 0 ELSE c

\* "if (pop_data->cmd_uidl == 2) { if (ret == 0) ... = 1;
\*  if (ret == -2 && pop_data->cmd_uidl == 2) ... = 0; }"
uidl_capability(c, ret) ==
  IF c = 2
  THEN IF ret = 0 THEN 1 ELSE IF ret = -2 THEN 0 ELSE c
  ELSE c

\* "if (pop_data->cmd_top == 2) { if (rc == 0) ... = 1; if (rc == -2) ... = 0; }"
top_capability(c, rc) ==
  IF c = 2
  THEN IF rc = 0 THEN 1 ELSE IF rc = -2 THEN 0 ELSE c
  ELSE c

\* what pop_query returns
QueryRets == {0, -1, -2}

\* pop_read_header on a record with this refno.  fopen_ok: the temp file
\* could be opened; list_rc, top_rc: what LIST and TOP are answered
pop_read_header(c_top, refno, fopen_ok, list_rc, top_rc) ==
  IF ~fopen_ok
  THEN [cmd_top |-> c_top, rc |-> -3, sent |-> <<>>, env |-> FALSE]
  ELSE IF list_rc # 0
  THEN [cmd_top |-> c_top, rc |-> list_rc,
        sent |-> <<Cmd("LIST", 0, refno, list_rc, "none")>>, env |-> FALSE]
  ELSE [cmd_top |-> top_capability(c_top, top_rc), rc |-> top_rc,
        sent |-> <<Cmd("LIST", 0, refno, 0, "none"),
                   Cmd("TOP", 0, refno, top_rc, "tmp")>>,
        env |-> top_rc = 0]

pop_read_header_call ==
  /\ \E refno \in 1..MaxNum, fopen_ok \in BOOLEAN,
        list_rc \in QueryRets, top_rc \in RetCodes :
     \E r \in {pop_read_header(cmd_top, refno, fopen_ok, list_rc, top_rc)} :
          /\ cmd_top' = r.cmd_top
          /\ probe' = [fn |-> "pop_read_header", sent |-> r.sent, rc |-> r.rc,
                       count |-> 0, listed |-> 0, env |-> r.env]
  /\ UNCHANGED <<cmd_uidl, hostvars, sockvars, pathvars, loopvars, mailvars, popvars, tlsvars>>

\* pop_fetch_headers up to the end of the UIDL probe, on a server that holds
\* count messages, lists listed of them and makes pop_fetch_data return ret
pop_fetch_headers_probe ==
  /\ \E count \in 0..MaxNum :
     \E listed \in 0..count, ret \in RetCodes :
          /\ ret = -2 => listed = 0
          /\ cmd_uidl' = uidl_capability(cmd_uidl, ret)
          /\ probe' = [fn |-> "pop_fetch_headers",
                       sent |-> <<Cmd("UIDL", 0, 0, ret, "none")>>,
                       rc |-> ret, count |-> count, listed |-> listed,
                       env |-> FALSE]
  /\ UNCHANGED <<cmd_top, hostvars, sockvars, pathvars, loopvars, mailvars, popvars, tlsvars>>

\* the connection is opened again: the capabilities are unknown again
pop_open_connection_caps ==
  /\ cmd_uidl' = 2
  /\ cmd_top' = 2
  /\ probe' = [NoProbe EXCEPT !.fn = "pop_open_connection"]
  /\ UNCHANGED <<hostvars, sockvars, pathvars, loopvars, mailvars, popvars, tlsvars>>

NextCaps ==
  \/ pop_fetch_headers_probe
  \/ pop_read_header_call
  \/ pop_open_connection_caps

(***************************************************************************)
(* The buffered socket layer.  Bytes are "a" (any byte but these two),    *)
(* "CR" and "LF".  conn.inbuf holds what the last conn_read returned,      *)
(* conn.inbuf[k + 1] being the C inbuf[k].                                 *)
(***************************************************************************)
\* most bytes the peer sends
MaxStream == 3
\* sizeof(conn->inbuf), the most one conn_read returns
InbufSize == 2
\* the largest buflen and the largest len handed in
MaxBuf == 4

Bytes == {"a", "CR", "LF"}

Streams == UNION {[1..n -> Bytes] : n \in 0..MaxStream}

Min(a, b) == IF a < b THEN a ELSE b

OpenConn == [fd |-> 3, inbuf |-> <<>>, bufpos |-> 0, available |-> 0]

NoIo == [fn |-> "none", ret |-> 0, line |-> <<>>, consumed |-> 0,
         reads |-> 0, writes |-> 0, buflen |-> 0, stale |-> FALSE]

SockIdle ==
  /\ conn = OpenConn
  /\ stream = <<>>
  /\ closed_by = "none"
  /\ inbuf_of_closed = FALSE
  /\ io = NoIo

\* a close that leaves the descriptor as it is
mutt_socket_close_keep(c) == c

\* mutt_socket_close: "conn->fd = -1"
mutt_socket_close(c) == [c EXCEPT !.fd = -1]

\* what conn_read returns on stream s when it hands out chunk bytes at a
\* time and answers eof (0 or -1) once the peer has sent everything
conn_read(s, chunk, eof) == IF s = <<>> THEN eof ELSE Min(chunk, Len(s))

\* mutt_socket_readchar on the state st = [conn, stream, reads, why]: the
\* new state, the result and the character
mutt_socket_readchar(st, chunk, eof) ==
  IF st.conn.bufpos >= st.conn.available
  THEN IF st.conn.fd >= 0
       THEN LET n == conn_read(st.stream, chunk, eof)
                c1 == [st.conn EXCEPT
                         !.available = n,
                         !.inbuf = IF n > 0 THEN SubSeq(st.stream, 1, n)
                                   ELSE st.conn.inbuf,
                         !.bufpos = 0]
                s1 == IF n > 0 THEN SubSeq(st.stream, n + 1, Len(st.stream))
                      ELSE st.stream
            IN IF n <= 0
               THEN [st |-> [conn |-> mutt_socket_close(c1), stream |-> s1,
                             reads |-> st.reads + 1, why |-> "read"],
                     ret |-> -1, c |-> "none"]
               ELSE [st |-> [conn |-> [c1 EXCEPT !.bufpos = 1], stream |-> s1,
                             reads |-> st.reads + 1, why |-> st.why],
                     ret |-> 1, c |-> c1.inbuf[1]]
       ELSE [st |-> st, ret |-> -1, c |-> "none"]
  ELSE [st |-> [st EXCEPT !.conn.bufpos = st.conn.bufpos + 1],
        ret |-> 1, c |-> st.conn.inbuf[st.conn.bufpos + 1]]

\* "if (i && buf[i - 1] == '\r') i--;"
readln_strip(buf, i) == IF i > 0 /\ buf[i] = "CR" THEN i - 1 ELSE i

\* after the loop: strip, terminate, "return i + 1"
readln_end(st, buf, i, n) ==
  LET j == readln_strip(buf, i)
  IN [st |-> st, ret |-> j + 1, line |-> SubSeq(buf, 1, j), consumed |-> n]

\* the for loop of mutt_socket_readln_d at i, with buf[0 .. i-1] stored and
\* n bytes taken so far
RECURSIVE readln_loop(_, _, _, _, _, _, _)
readln_loop(st, buflen, buf, i, n, chunk, eof) ==
  IF i >= buflen - 1
  THEN readln_end(st, buf, i, n)
  ELSE LET r == mutt_socket_readchar(st, chunk, eof)
       IN IF r.ret # 1
          THEN [st |-> r.st, ret |-> -1, line |-> buf, consumed |-> n]
          ELSE IF r.c = "LF"
          THEN readln_end(r.st, buf, i, n + 1)
          ELSE readln_loop(r.st, buflen, Append(buf, r.c), i + 1, n + 1,
                           chunk, eof)

mutt_socket_readln_d(st, buflen, chunk, eof) ==
  readln_loop(st, buflen, <<>>, 0, 0, chunk, eof)

\* the while loop of mutt_socket_write_d: conn_write takes per bytes a call
\* and fails at the call after budget successful ones
RECURSIVE write_loop(_, _, _, _, _)
write_loop(done, len, per, budget, calls) ==
  IF done >= len THEN [ret |-> done, failed |-> FALSE, writes |-> calls]
  ELSE IF budget = 0 THEN [ret |-> -1, failed |-> TRUE, writes |-> calls + 1]
  ELSE write_loop(done + Min(per, len - done), len, per, budget - 1, calls + 1)

mutt_socket_write_d(c, len, per, budget) ==
  IF c.fd < 0 THEN [ret |-> -1, failed |-> FALSE, writes |-> 0]
  ELSE write_loop(0, len, per, budget, 0)

SockState == [conn |-> conn, stream |-> stream, reads |-> 0, why |-> closed_by]

\* inbuf after a call that called conn_read n times and left the connection
\* c: a conn_read that fails closes the connection inbuf was read from, one
\* that succeeds fills inbuf from the connection that is open
InbufOfClosed(c, n) == IF n = 0 THEN inbuf_of_closed ELSE c.fd < 0

\* the call starts on bytes a closed connection left in inbuf
StaleBytes == inbuf_of_closed /\ conn.bufpos < conn.available

mutt_socket_readchar_call ==
  /\ \E chunk \in 1..InbufSize, eof \in {0, -1} :
     \E r \in {mutt_socket_readchar(SockState, chunk, eof)} :
          /\ conn' = r.st.conn
          /\ stream' = r.st.stream
          /\ closed_by' = r.st.why
          /\ io' = [fn |-> "readchar", ret |-> r.ret,
                    line |-> IF r.ret = 1 THEN <<r.c>> ELSE <<>>,
                    consumed |-> IF r.ret = 1 THEN 1 ELSE 0,
                    reads |-> r.st.reads, writes |-> 0, buflen |-> 0,
                    stale |-> StaleBytes /\ r.ret = 1]
          /\ inbuf_of_closed' = InbufOfClosed(r.st.conn, r.st.reads)
  /\ UNCHANGED <<hostvars, capvars, pathvars, loopvars, mailvars, popvars, tlsvars>>

mutt_socket_readln_d_call ==
  /\ \E buflen \in 1..MaxBuf, chunk \in 1..InbufSize, eof \in {0, -1} :
     \E r \in {mutt_socket_readln_d(SockState, buflen, chunk, eof)} :
          /\ conn' = r.st.conn
          /\ stream' = r.st.stream
          /\ closed_by' = r.st.why
          /\ io' = [fn |-> "readln", ret |-> r.ret, line |-> r.line,
                    consumed |-> r.consumed, reads |-> r.st.reads,
                    writes |-> 0, buflen |-> buflen,
                    stale |-> StaleBytes /\ r.ret > 0 /\ r.consumed > 0]
          /\ inbuf_of_closed' = InbufOfClosed(r.st.conn, r.st.reads)
  /\ UNCHANGED <<hostvars, capvars, pathvars, loopvars, mailvars, popvars, tlsvars>>

mutt_socket_write_d_call ==
  /\ \E len \in 0..MaxBuf :
     \E per \in 1..Min(InbufSize, IF len = 0 THEN 1 ELSE len),
        budget \in 0..len :
     \E r \in {mutt_socket_write_d(conn, len, per, budget)} :
          /\ conn' = IF r.failed THEN mutt_socket_close(conn) ELSE conn
          /\ closed_by' = IF r.failed THEN "write" ELSE closed_by
          /\ io' = [fn |-> "write", ret |-> r.ret, line |-> <<>>,
                    consumed |-> 0, reads |-> 0, writes |-> r.writes,
                    buflen |-> len, stale |-> FALSE]
          /\ inbuf_of_closed' = (r.failed \/ inbuf_of_closed)
  /\ UNCHANGED <<stream, hostvars, capvars, pathvars, loopvars, mailvars, popvars, tlsvars>>

\* mutt_socket_open: conn_open sets the fd when it succeeds
mutt_socket_open ==
  /\ \E ok \in BOOLEAN :
       /\ conn' = IF ok THEN [conn EXCEPT !.fd = 3] ELSE conn
       /\ closed_by' = IF ok THEN "none" ELSE closed_by
       /\ io' = [NoIo EXCEPT !.fn = "open", !.ret = IF ok THEN 0 ELSE -1]
  /\ UNCHANGED <<stream, inbuf_of_closed, hostvars, capvars, pathvars, loopvars, mailvars, popvars, tlsvars>>

\* mutt_socket_close called on the connection: conn_close, answering rc, is
\* called when the connection is open
mutt_socket_close_call ==
  /\ \E rc \in {0, -1} :
       /\ conn.fd < 0 => rc = -1
       /\ conn' = mutt_socket_close(conn)
       /\ closed_by' = IF conn.fd < 0 THEN closed_by ELSE "close"
       /\ inbuf_of_closed' = (conn.fd >= 0 \/ inbuf_of_closed)
       /\ io' = [NoIo EXCEPT !.fn = "close", !.ret = rc]
  /\ UNCHANGED <<stream, hostvars, capvars, pathvars, loopvars, mailvars, popvars, tlsvars>>

\* what conn_poll can return: raw_socket_poll gives -1 on a closed
\* connection, else what select gives
PollRets(c) == IF c.fd < 0 THEN {-1} ELSE {-1, 0, 1}

\* "if (conn->bufpos < conn->available) return conn->available -
\*  conn->bufpos; if (conn->conn_poll) return conn->conn_poll(conn, ...);"
mutt_socket_poll(c, rc) ==
  IF c.bufpos < c.available THEN c.available - c.bufpos ELSE rc

mutt_socket_poll_call ==
  /\ \E rc \in PollRets(conn) :
       io' = [NoIo EXCEPT !.fn = "poll", !.ret = mutt_socket_poll(conn, rc),
                          !.stale = StaleBytes]
  /\ UNCHANGED <<conn, stream, closed_by, inbuf_of_closed>>
  /\ UNCHANGED <<hostvars, capvars, pathvars, loopvars, mailvars, popvars, tlsvars>>

NextSock ==
  \/ mutt_socket_readchar_call
  \/ mutt_socket_readln_d_call
  \/ mutt_socket_write_d_call
  \/ mutt_socket_open
  \/ mutt_socket_close_call
  \/ mutt_socket_poll_call

(***************************************************************************)
(* Path tidying without symlink resolution.  A path is the sequence of its *)
(* "/" and the components between them, "/a/.." being <<"/", "a", "/",     *)
(* "..">>; its length in characters is the sum over these.                 *)
(***************************************************************************)
\* most components of a path
MaxComps == 4

Names == {"a", "b"}

RECURSIVE Join(_)
\* "/" before every component
Join(cs) == IF cs = <<>> THEN <<>> ELSE <<"/", Head(cs)>> \o Join(Tail(cs))

\* the absolute paths of up to MaxComps components, with and without a
\* trailing "/"
AbsPaths ==
  {<<"/">>} \cup
  UNION {{Join(cs), Join(cs) \o <<"/">>} :
           cs \in UNION {[1..n -> Names \cup {".."}] : n \in 1..MaxComps}}

\* the paths of test_file_tidy_path and test_mutt_realpath
TestPaths ==
  {<<>>,
   <<"/", "a", "/", "b", "/", "c">>,
   <<"/", "a", "/", "b", "/", "c", "/">>,
   <<"/", "a", "/", "b", "/", "c", "/", "..">>,
   <<"/", "a", "/", "b", "/", "c", "/", "..", "/", "..">>,
   <<"/", "a", "/", "b", "/", "c", "/", "..", "/", "..", "/">>,
   <<"/", "a", "/", "..", "/", "..", "/", "..">>,
   <<"/", "..">>,
   <<"/", "apple", "/", "butterfly", "/", "..", "/", "custard", "/", "..",
     "/", "..", "/", "dirty">>}

\* the expected results of test_file_tidy_path and test_mutt_realpath
TestExpect(p) ==
  CASE p = <<>> -> <<>>
    [] p = <<"/", "a", "/", "b", "/", "c">> -> <<"/", "a", "/", "b", "/", "c">>
    [] p = <<"/", "a", "/", "b", "/", "c", "/">>
         -> <<"/", "a", "/", "b", "/", "c">>
    [] p = <<"/", "a", "/", "b", "/", "c", "/", "..">> -> <<"/", "a", "/", "b">>
    [] p = <<"/", "a", "/", "b", "/", "c", "/", "..", "/", "..">> -> <<"/", "a">>
    [] p = <<"/", "a", "/", "b", "/", "c", "/", "..", "/", "..", "/">>
         -> <<"/", "a">>
    [] p = <<"/", "a", "/", "..", "/", "..", "/", "..">> -> <<"/">>
    [] p = <<"/", "..">> -> <<"/">>
    [] OTHER -> <<"/", "dirty">>

RECURSIVE strlen(_)
strlen(p) == IF p = <<>> THEN 0 ELSE Len(Head(p)) + strlen(Tail(p))

Components(p) == SelectSeq(p, LAMBDA t : t # "/")

RECURSIVE tidy_walk(_, _)
\* the components that are left of cs after stack
tidy_walk(cs, stack) ==
  IF cs = <<>> THEN stack
  ELSE IF Head(cs) = ".."
  THEN tidy_walk(Tail(cs), IF stack = <<>> THEN <<>>
                           ELSE SubSeq(stack, 1, Len(stack) - 1))
  ELSE tidy_walk(Tail(cs), Append(stack, Head(cs)))

\* a tidy that leaves a trailing "/" where it is
mutt_file_tidy_path_slash(p) ==
  IF p = <<>> THEN [path |-> <<>>, len |-> 0]
  ELSE LET st == tidy_walk(Components(p), <<>>)
           out == IF st = <<>> THEN <<"/">>
                  ELSE IF p[Len(p)] = "/" THEN Join(st) \o <<"/">>
                  ELSE Join(st)
       IN [path |-> out, len |-> strlen(out)]

\* mutt_file_tidy_path(buf, false), mutt_realpath(buf, false): the path left
\* in buf and the length returned
mutt_file_tidy_path(p) ==
  IF p = <<>> THEN [path |-> <<>>, len |-> 0]
  ELSE LET st == tidy_walk(Components(p), <<>>)
           out == IF st = <<>> THEN <<"/">> ELSE Join(st)
       IN [path |-> out, len |-> strlen(out)]

NoTidy == [fn |-> "none", arg |-> <<>>, len |-> 0]

PathIdle == pathbuf = <<>> /\ tidy_call = NoTidy

mutt_file_tidy_path_call ==
  /\ \E fn \in {"mutt_file_tidy_path", "mutt_realpath"} :
     \E r \in {mutt_file_tidy_path(pathbuf)} :
          /\ pathbuf' = r.path
          /\ tidy_call' = [fn |-> fn, arg |-> pathbuf, len |-> r.len]
  /\ UNCHANGED <<hostvars, capvars, sockvars, loopvars, mailvars, popvars, tlsvars>>

NextPath == mutt_file_tidy_path_call

(***************************************************************************)
(* The header loop of pop_fetch_headers, "for (i = old_count; i <          *)
(* new_count; i++)", one iteration in its steps: the header is fetched     *)
(* from the header cache or read from the server, a header read is stored, *)
(* the flags are set and the header is counted.  The loop runs over the    *)
(* new headers of a listing with a header cache open; the sweep that       *)
(* follows it is pop_fetch_headers_caches.                                 *)
(***************************************************************************)
\* no header under this key
NoHdr == [refno |-> 0, read |-> FALSE, old |-> FALSE]

\* the headers an earlier session can have left under a key: numbered by
\* the listing of then, flagged as they were when they were stored
StoredHdrs == [refno : 1..MaxNum, read : BOOLEAN, old : BOOLEAN]

HeaderCaches == [UIDLs -> StoredHdrs \cup {NoHdr}]

\* the new headers as fetch_uidl appends them: no envelope, no flag
NewHdrs(lines) ==
  LET h == pop_fetch_headers_uidl(<<>>, lines).hdrs
  IN [k \in 1..Len(h) |->
        [uidl |-> h[k].uidl, refno |-> h[k].refno, index |-> h[k].index,
         env |-> "none", read |-> FALSE, old |-> FALSE]]

NoLoop == [at |-> "idle", i |-> 0, ret |-> 0, hcached |-> FALSE,
           old_count |-> 0, new_count |-> 0, msgcount |-> 0]

LoopIdle ==
  /\ hloop = NoLoop
  /\ lhdrs = <<>>
  /\ listed_hdrs = <<>>
  /\ hcache_hdrs = [u \in UIDLs |-> NoHdr]
  /\ bodies = {}
  /\ MarkOld = FALSE

\* mutt_hcache_fetch: the header under the key, NoHdr for NULL
mutt_hcache_fetch(u) == hcache_hdrs[u]

\* mutt_hcache_restore: the header as it lay in the cache; its data points
\* into the block of the cache
mutt_hcache_restore(st) ==
  [uidl |-> "stale", refno |-> st.refno, index |-> st.refno - 1,
   env |-> "hcache", read |-> st.read, old |-> st.old]

\* a restore that leaves the header as the cache had it
hcache_restore_as_stored(h, st) == mutt_hcache_restore(st)

\* "struct Header *h = mutt_hcache_restore(data); ... ctx->hdrs[i] = h;
\*  ctx->hdrs[i]->refno = refno; ->index = index; ->data = uidl;"
hcache_restore(h, st) ==
  [mutt_hcache_restore(st) EXCEPT !.refno = h.refno, !.index = h.index,
                                  !.uidl = h.uidl]

\* a loop that goes on whatever pop_read_header returned
read_failed_never(ret) == FALSE

\* "if ((ret = pop_read_header(pop_data, ctx->hdrs[i])) < 0) break;"
read_failed(ret) == ret < 0

\* "bcached = ...; old = false; read = false; if (hcached) { if (bcached)
\*  read = true; else if (MarkOld) old = true; } else { if (bcached) read =
\*  true; }"
fake_flags(h, hcached, bcached) ==
  [h EXCEPT !.read = bcached, !.old = hcached /\ ~bcached /\ MarkOld]

\* pop_read_header returned ret: "case 0: ... h->env =
\* mutt_rfc822_read_header(f, h, 0, 0);", no envelope in the other cases
pop_read_header_env(h, ret) ==
  IF ret = 0 THEN [h EXCEPT !.env = "server"] ELSE h

\* the head of an iteration: the header cache is asked, and on a miss the
\* server; hcached is the variable of the function, set at a hit
loop_fetch ==
  /\ hloop.at = "fetch"
  /\ LET i  == hloop.i + 1
         st == mutt_hcache_fetch(lhdrs[i].uidl)
     IN IF st # NoHdr
        THEN /\ lhdrs' = [lhdrs EXCEPT ![i] = hcache_restore(lhdrs[i], st)]
             /\ hloop' = [hloop EXCEPT !.ret = 0, !.hcached = TRUE,
                                     !.at = "flags"]
        ELSE \E ret \in RetCodes :
               IF read_failed(ret)
               THEN /\ lhdrs' = lhdrs
                    /\ hloop' = [hloop EXCEPT !.ret = ret, !.at = "after"]
               ELSE /\ lhdrs' = [lhdrs EXCEPT
                                  ![i] = pop_read_header_env(lhdrs[i], ret)]
                    /\ hloop' = [hloop EXCEPT !.ret = ret, !.at = "store"]
  /\ UNCHANGED <<listed_hdrs, hcache_hdrs, bodies, MarkOld>>
  /\ UNCHANGED <<hostvars, capvars, sockvars, pathvars, mailvars, popvars,
                 tlsvars>>

\* "else { mutt_hcache_store(hc, ctx->hdrs[i]->data, ..., ctx->hdrs[i], 0); }"
loop_store ==
  /\ hloop.at = "store"
  /\ LET h == lhdrs[hloop.i + 1]
     IN hcache_hdrs' = [hcache_hdrs EXCEPT ![h.uidl] =
                 [refno |-> h.refno, read |-> h.read, old |-> h.old]]
  /\ hloop' = [hloop EXCEPT !.at = "flags"]
  /\ UNCHANGED <<lhdrs, listed_hdrs, bodies, MarkOld>>
  /\ UNCHANGED <<hostvars, capvars, sockvars, pathvars, mailvars, popvars,
                 tlsvars>>

\* the flags, "ctx->msgcount++" and the i++ of the loop
loop_flags ==
  /\ hloop.at = "flags"
  /\ LET i == hloop.i + 1
         bcached == lhdrs[i].uidl \in bodies
     IN /\ lhdrs' = [lhdrs EXCEPT
                       ![i] = fake_flags(lhdrs[i], hloop.hcached, bcached)]
        /\ hloop' = [hloop EXCEPT
                      !.msgcount = hloop.msgcount + 1,
                      !.i = i,
                      !.at = IF i < hloop.new_count THEN "fetch" ELSE "after"]
  /\ UNCHANGED <<listed_hdrs, hcache_hdrs, bodies, MarkOld>>
  /\ UNCHANGED <<hostvars, capvars, sockvars, pathvars, mailvars, popvars,
                 tlsvars>>

\* "if (ret < 0) { for (i = ctx->msgcount; i < new_count; i++)
\*  mutt_free_header(&ctx->hdrs[i]); return ret; } ...
\*  return (new_count - old_count);"
loop_return ==
  /\ hloop.at = "after"
  /\ lhdrs' = IF hloop.ret < 0 THEN SubSeq(lhdrs, 1, hloop.msgcount)
              ELSE lhdrs
  /\ hloop' = [hloop EXCEPT
                !.ret = IF hloop.ret < 0 THEN hloop.ret
                        ELSE hloop.new_count - hloop.old_count,
                !.at = "done"]
  /\ UNCHANGED <<listed_hdrs, hcache_hdrs, bodies, MarkOld>>
  /\ UNCHANGED <<hostvars, capvars, sockvars, pathvars, mailvars, popvars,
                 tlsvars>>

NextLoop ==
  \/ loop_fetch
  \/ loop_store
  \/ loop_flags
  \/ loop_return

(***************************************************************************)
(* pop_fetch_mail: the maildrop is drained into the spool mailbox.  The    *)
(* log holds what was sent with what pop_query or pop_fetch_data returned  *)
(* for it, and the calls of mx_open_new_message and mx_commit_message      *)
(* with their results, for message n.                                      *)
(***************************************************************************)
Ev(cmd, n, ret) == [cmd |-> cmd, n |-> n, ret |-> ret]

\* the answers of query_quadoption
QuadAnswers == {"MUTT_YES", "MUTT_NO", "MUTT_ABORT"}

NoDrain == [at |-> "idle", i |-> 0, last |-> 0, msgs |-> 0,
            delanswer |-> "MUTT_NO", rset |-> FALSE]

MailIdle == drain = NoDrain /\ drain_log = <<>>

\* up to the loop: STAT, LAST when $pop_last is set, the spool mailbox is
\* opened and $pop_delete is asked.  stat, lastrc: what pop_query returns;
\* msgs, last: the numbers in the answers
pop_fetch_mail ==
  /\ drain.at = "idle"
  /\ \E stat \in QueryRets, msgs \in 0..MaxNum, PopLast \in BOOLEAN,
        lastrc \in QueryRets, delanswer \in QuadAnswers,
        spool_ok \in BOOLEAN :
     \E lastno \in 0..msgs :
       LET ask     == stat = 0 /\ msgs > 0 /\ PopLast
           last    == IF ask /\ lastrc = 0 THEN lastno ELSE 0
           log     == <<Ev("STAT", 0, stat)>>
                        \o (IF ask THEN <<Ev("LAST", 0, lastrc)>> ELSE <<>>)
           at      == IF stat = -1 \/ (ask /\ lastrc = -1) THEN "fail"
                      ELSE IF stat = -2 \/ msgs <= last \/ ~spool_ok
                      THEN "finish"
                      ELSE "loop"
       IN /\ ~ask => lastrc = 0 /\ lastno = 0
          /\ (ask /\ lastrc # 0) => lastno = 0
          /\ stat # 0 => msgs = 0
          /\ at # "loop" => delanswer = "MUTT_NO" /\ spool_ok
          /\ drain_log' = log
          /\ drain' = [at |-> at, i |-> last + 1, last |-> last,
                       msgs |-> msgs, delanswer |-> delanswer,
                       rset |-> FALSE]
  /\ UNCHANGED <<hostvars, capvars, sockvars, pathvars, loopvars, popvars,
                 tlsvars>>

\* a loop that sends DELE whatever became of the message
dele_wanted_any(ret, delanswer) == delanswer = "MUTT_YES"

\* "if (ret == 0 && delanswer == MUTT_YES)"
dele_wanted(ret, delanswer) == ret = 0 /\ delanswer = "MUTT_YES"

\* one pass of "for (int i = last + 1; i <= msgs; i++)".  new_ok:
\* mx_open_new_message gave a message; retr: what pop_fetch_data returned
\* for RETR; commit_ok: mx_commit_message returned 0; dele: what pop_query
\* returned for DELE
pop_fetch_mail_loop ==
  /\ drain.at = "loop"
  /\ \E new_ok \in BOOLEAN, retr \in RetCodes, commit_ok \in BOOLEAN,
        dele \in QueryRets :
       LET i     == drain.i
           ret1  == IF ~new_ok THEN -3
                    ELSE IF retr = 0 /\ ~commit_ok THEN -3 ELSE retr
           rset  == \/ drain.rset
                    \/ new_ok /\ (retr = -3 \/ (retr = 0 /\ ~commit_ok))
           del   == dele_wanted(ret1, drain.delanswer)
           ret   == IF del THEN dele ELSE ret1
           log   == (IF ~new_ok THEN <<Ev("new", i, -3)>>
                     ELSE <<Ev("RETR", i, retr)>>
                            \o (IF retr = 0
                                THEN <<Ev("commit", i,
                                          IF commit_ok THEN 0 ELSE -1)>>
                                ELSE <<>>))
                    \o (IF del THEN <<Ev("DELE", i, dele)>> ELSE <<>>)
       IN /\ ~new_ok => retr = 0
          /\ (~new_ok \/ retr # 0) => commit_ok
          /\ ~del => dele = 0
          /\ drain_log' = drain_log \o log
          /\ drain' = [drain EXCEPT
                         !.rset = rset,
                         !.i = IF ret = 0 THEN i + 1 ELSE i,
                         !.at = IF ret = -1 THEN "fail"
                                ELSE IF ret # 0 \/ i + 1 > drain.msgs
                                THEN "after"
                                ELSE "loop"]
  /\ UNCHANGED <<hostvars, capvars, sockvars, pathvars, loopvars, popvars,
                 tlsvars>>

\* after the loop: "if (rset) { RSET; if (pop_query(...) == -1) goto fail; }",
\* then finish
pop_fetch_mail_rset ==
  /\ drain.at = "after"
  /\ \E rc \in QueryRets :
       /\ ~drain.rset => rc = 0
       /\ drain_log' = IF drain.rset
                       THEN Append(drain_log, Ev("RSET", 0, rc))
                       ELSE drain_log
       /\ drain' = [drain EXCEPT
                      !.at = IF drain.rset /\ rc = -1 THEN "fail"
                             ELSE "finish"]
  /\ UNCHANGED <<hostvars, capvars, sockvars, pathvars, loopvars, popvars,
                 tlsvars>>

\* "finish:": QUIT, then the connection is closed
pop_fetch_mail_finish ==
  /\ drain.at = "finish"
  /\ \E rc \in QueryRets :
       drain_log' = Append(drain_log, Ev("QUIT", 0, rc))
  /\ drain' = [drain EXCEPT !.at = "done"]
  /\ UNCHANGED <<hostvars, capvars, sockvars, pathvars, loopvars, popvars,
                 tlsvars>>

\* "fail:": the connection is closed and nothing more is sent
pop_fetch_mail_fail ==
  /\ drain.at = "fail"
  /\ drain' = [drain EXCEPT !.at = "done"]
  /\ UNCHANGED drain_log
  /\ UNCHANGED <<hostvars, capvars, sockvars, pathvars, loopvars, popvars,
                 tlsvars>>

NextMail ==
  \/ pop_fetch_mail
  \/ pop_fetch_mail_loop
  \/ pop_fetch_mail_rset
  \/ pop_fetch_mail_finish
  \/ pop_fetch_mail_fail

HostIdle == arg_hostname = <<>> /\ arg_certname = <<>> /\ match_ret = "none"

FnIdle ==
  HostIdle /\ CapIdle /\ SockIdle /\ PathIdle /\ LoopIdle /\ MailIdle

hostname_match_call ==
  /\ match_ret = "none"
  /\ match_ret' = IF hostname_match(arg_hostname, arg_certname)
                   THEN "true" ELSE "false"
  /\ UNCHANGED <<arg_hostname, arg_certname, capvars, sockvars, pathvars, loopvars, mailvars, popvars,
                 tlsvars>>

NextHost == hostname_match_call

(***************************************************************************)
(* The parts run apart: the driver over a settled trust engine, the trust  *)
(* engine under every configuration over a closed mailbox, hostname_match  *)
(* over every pair of names.                                               *)
(***************************************************************************)
\* the driver with the clock stopped: every check is due
\* ($pop_checkinterval 0) or none is
InitPop ==
  /\ PopStart(NoCaches, {}, {})
  /\ Clock(0, {0, 1})
  /\ TlsDefaults
  /\ FnIdle

SpecPop == InitPop /\ [][NextPop]_vars

(***************************************************************************)
(* The handlers that work on an open mailbox, from the mailboxes an open   *)
(* and the user's flagging can have left: the records carry distinct       *)
(* UIDLs, each its place as index, and refno -1 or the number the last     *)
(* listing or reconnect gave.                                              *)
(***************************************************************************)
OpenHdrs ==
  UNION {
    {h \in [1..n -> [uidl : UIDLs, refno : {-1} \cup (1..MaxNum),
                     index : 0..(n - 1), deleted : BOOLEAN]] :
       /\ \A i \in 1..n : h[i].index = i - 1
       /\ \A i, j \in 1..n :
            i # j => /\ h[i].uidl # h[j].uidl
                     /\ h[i].refno = -1 \/ h[i].refno # h[j].refno}
    : n \in 1..Cardinality(UIDLs) }

\* both caches in use, with and without the sweep
AllCaches(clean) ==
  [MessageCachedir |-> TRUE, HeaderCache |-> TRUE, MessageCacheClean |-> clean]

\* the ring empty, or the body of the first record in its slot
OpenRings ==
  {EmptyRing} \cup
  {[EmptyRing EXCEPT ![0] = [index |-> 0, path |-> "tmp", body |-> u]] :
     u \in UIDLs}

\* an open mailbox between two handlers: the connection in one of the
\* states st, the ring one of rings, the caches one of caches
OpenState(st, rings, caches) ==
  /\ TlsDefaults
  /\ FnIdle
  /\ hdrs \in OpenHdrs
  /\ clear_cache = FALSE
  /\ cache \in rings
  /\ cache[0].path # NoPath => cache[0].body = hdrs[1].uidl
  /\ status \in st
  /\ pc = "open"
  /\ msg = NoMsg
  /\ uidl_list = <<>>
  /\ fetched = FALSE
  /\ fh_ret = 0
  /\ lost = 0
  /\ unlinked = 0
  /\ cleared = FALSE
  /\ \E c \in caches : cachecfg = c.cfg /\ bcache = c.bc /\ hcache = c.hc
  /\ sent = <<>>
  /\ rv = "none"
  /\ synced = FALSE

\* the same with the clock stopped and every check due
OpenMbox(st, rings, caches) ==
  /\ OpenState(st, rings, caches)
  /\ check_time = 0
  /\ Clock(0, {0})

Caches(cfg, bc, hc) == [cfg |-> cfg, bc |-> bc, hc |-> hc]

UpOrDown == {"POP_CONNECTED", "POP_DISCONNECTED"}

\* sync: no caches, or both holding every message
InitSync ==
  OpenMbox(UpOrDown, OpenRings,
           {Caches(NoCaches, {}, {}), Caches(AllCaches(FALSE), UIDLs, UIDLs)})

NextSync ==
  \/ mx_pop_ops_return
  \/ pop_sync_mailbox
  \/ pop_sync_mailbox_loop
  \/ pop_reconnect_step

SpecSync == InitSync /\ [][NextSync]_vars

\* fetch-message: no caches, or a body cache holding any of the bodies
InitFetch ==
  OpenMbox(UpOrDown, OpenRings,
           {Caches(NoCaches, {}, {})}
             \cup {Caches(AllCaches(FALSE), bc, UIDLs) : bc \in SUBSET UIDLs})

NextFetch ==
  \/ mx_pop_ops_return
  \/ pop_fetch_message
  \/ pop_fetch_message_loop
  \/ pop_reconnect_step

SpecFetch == InitFetch /\ [][NextFetch]_vars

\* sync and the check that follows it, over caches that hold every
\* message, with and without $message_cache_clean
InitSweep ==
  OpenMbox({"POP_CONNECTED"}, {EmptyRing},
           {Caches(AllCaches(clean), UIDLs, UIDLs) : clean \in BOOLEAN})

NextSweep ==
  \/ mx_pop_ops_return
  \/ pop_sync_mailbox
  \/ pop_sync_mailbox_loop
  \/ pop_reconnect_step
  \/ pop_check_mailbox

SpecSweep == InitSweep /\ [][NextSweep]_vars

\* checks over a body cache that holds every message and, with and without
\* the header cache file beside them, with and without $message_cache_clean
InitClean ==
  OpenMbox({"POP_CONNECTED"}, {EmptyRing},
           {Caches(AllCaches(clean), UIDLs \cup f, UIDLs) :
              clean \in BOOLEAN, f \in {{}, {HcacheFile}}})

NextClean ==
  \/ mx_pop_ops_return
  \/ pop_check_mailbox

SpecClean == InitClean /\ [][NextClean]_vars

\* time(NULL) returns more than it did
time_tick ==
  /\ rv = "none"
  /\ pc = "open"
  /\ now < MaxTime
  /\ now' = now + 1
  /\ UNCHANGED <<hdrs, clear_cache, cache, status, pc, msg, uidl_list,
                 fetched, fh_ret, lost, unlinked, cleared, cachecfg, bcache,
                 hcache, sent, rv, synced, check_time, PopCheckinterval>>
  /\ UNCHANGED <<tlsvars, fnvars>>

\* check and sync while time passes, from a mailbox synced at time 0
InitCheck ==
  /\ OpenState({"POP_CONNECTED"}, {EmptyRing}, {Caches(NoCaches, {}, {})})
  /\ check_time = 0
  /\ Clock(0, {1, 2})

NextCheck ==
  \/ time_tick
  \/ mx_pop_ops_return
  \/ pop_check_mailbox_not_due
  \/ pop_check_mailbox_no_connection
  \/ pop_check_mailbox
  \/ pop_sync_mailbox
  \/ pop_sync_mailbox_loop
  \/ pop_reconnect_step

SpecCheck == InitCheck /\ [][NextCheck]_vars

NextDriver ==
  \/ NextPop
  \/ pop_sync_mailbox
  \/ pop_sync_mailbox_loop

SpecDriver == InitPop /\ [][NextDriver]_vars

InitCaps == PopInit /\ TlsDefaults /\ FnIdle

SpecCaps == InitCaps /\ [][NextCaps]_vars

\* a fresh connection to a peer that sends any of the streams
InitSock ==
  /\ PopInit
  /\ TlsDefaults
  /\ HostIdle
  /\ CapIdle
  /\ conn = OpenConn
  /\ stream \in Streams
  /\ closed_by = "none"
  /\ inbuf_of_closed = FALSE
  /\ io = NoIo
  /\ PathIdle
  /\ LoopIdle
  /\ MailIdle

SpecSock == InitSock /\ [][NextSock]_vars

\* a buffer that holds any of the paths
InitPath ==
  /\ PopInit
  /\ TlsDefaults
  /\ HostIdle
  /\ CapIdle
  /\ SockIdle
  /\ pathbuf \in AbsPaths \cup TestPaths
  /\ tidy_call = NoTidy
  /\ LoopIdle
  /\ MailIdle

SpecPath == InitPath /\ [][NextPath]_vars

\* the loop over the new headers of any listing, with any header cache, any
\* body cache and $mark_old either way
InitLoop ==
  /\ PopInit
  /\ TlsDefaults
  /\ HostIdle
  /\ CapIdle
  /\ SockIdle
  /\ PathIdle
  /\ \E lines \in Listings :
       /\ lhdrs = NewHdrs(lines)
       /\ listed_hdrs = lhdrs
       /\ hloop = [NoLoop EXCEPT
                    !.at = IF lhdrs = <<>> THEN "after" ELSE "fetch",
                    !.new_count = Len(lhdrs)]
  /\ hcache_hdrs \in HeaderCaches
  /\ bodies \in SUBSET UIDLs
  /\ MarkOld \in BOOLEAN
  /\ MailIdle

SpecLoop == InitLoop /\ [][NextLoop]_vars

\* one call of pop_fetch_mail
InitMail == PopInit /\ TlsDefaults /\ FnIdle

SpecMail == InitMail /\ [][NextMail]_vars

InitTls ==
  /\ PopInit
  /\ \E c \in Confs, f \in TrustFiles :
       /\ ~c.CertificateFile => f = <<>>
       /\ TlsInit(c, f)
  /\ FnIdle

SpecTls == InitTls /\ [][NextTls]_vars

InitHost ==
  /\ PopInit
  /\ TlsDefaults
  /\ arg_hostname \in HostNames
  /\ arg_certname \in CertNames
  /\ match_ret = "none"
  /\ CapIdle
  /\ SockIdle
  /\ PathIdle
  /\ LoopIdle
  /\ MailIdle

SpecHost == InitHost /\ [][NextHost]_vars

(***************************************************************************)
(* Properties of the mailbox driver.                                       *)
(***************************************************************************)
\* the last pop_fetch_headers returned success
FetchedOk == fetched /\ fh_ret >= 0

\* the listing names UIDL u
Listed(lines, u) == \E k \in 1..Len(lines) : lines[k].uidl = u

\* line k is the last line of the listing that names its UIDL
LastOf(lines, k) == \A j \in (k + 1)..Len(lines) : lines[j].uidl # lines[k].uidl

\* C1: in every state of a session, whatever opens, checks, reconnects and
\* fetch-headers runs (failed ones too) led to it, no two HeaderRecords
\* carry the same UIDL.
C1_NoSharedUidl ==
  \A i, j \in 1..Len(hdrs) : hdrs[i].uidl = hdrs[j].uidl => i = j

\* a listing that names one UIDL twice met a known record and a new message
C1_Witness ==
  /\ FetchedOk
  /\ Len(uidl_list) = 2
  /\ uidl_list[1].uidl = uidl_list[2].uidl
  /\ Len(hdrs) = 2

\* C2: when pop_fetch_headers has returned success, every HeaderRecord has
\* refno > 0 or is flagged deleted.
C2_LiveOrDeleted ==
  FetchedOk => \A i \in 1..Len(hdrs) : hdrs[i].refno > 0 \/ hdrs[i].deleted

\* a success that left one record lost and one live
C2_Witness ==
  /\ FetchedOk
  /\ \E i, j \in 1..Len(hdrs) :
        /\ hdrs[i].refno = -1 /\ hdrs[i].deleted
        /\ hdrs[j].refno > 0 /\ ~hdrs[j].deleted

\* C3: after a successful pop_fetch_headers, a record whose UIDL the listing
\* names has the message number of that UIDL's (last) line as refno.
C3_RefnoListed ==
  FetchedOk =>
    \A i \in 1..Len(hdrs) : \A k \in 1..Len(uidl_list) :
      (uidl_list[k].uidl = hdrs[i].uidl /\ LastOf(uidl_list, k))
        => hdrs[i].refno = uidl_list[k].num

\* the listing "1 BBB", "2 AAA" met the known records AAA, BBB
C3_Witness ==
  /\ FetchedOk
  /\ fh_ret = 0
  /\ uidl_list = <<[num |-> 1, uidl |-> "BBB"], [num |-> 2, uidl |-> "AAA"]>>
  /\ Len(hdrs) = 2
  /\ hdrs[1].uidl = "AAA" /\ hdrs[1].refno = 2
  /\ hdrs[2].uidl = "BBB" /\ hdrs[2].refno = 1

\* a step of a successful pop_fetch_headers: hdrs holds the records known
\* before it, uidl_list' the listing it received
C4_Step ==
  (fetched' /\ fh_ret' >= 0) =>
    /\ Len(hdrs') >= Len(hdrs)
    /\ \A i \in 1..Len(hdrs) :
         /\ hdrs'[i].uidl = hdrs[i].uidl
         /\ ~Listed(uidl_list', hdrs[i].uidl)
              => hdrs'[i].deleted /\ hdrs'[i].refno = -1
         /\ Listed(uidl_list', hdrs[i].uidl)
              => hdrs'[i].deleted = hdrs[i].deleted
    /\ \A i \in (Len(hdrs) + 1)..Len(hdrs') : ~hdrs'[i].deleted
    /\ lost' = Cardinality({i \in 1..Len(hdrs) :
                              ~Listed(uidl_list', hdrs[i].uidl)})

\* C4: a successful pop_fetch_headers flags deleted the known records whose
\* UIDL the listing does not name, leaves their refno at -1 and gives their
\* number to mutt_error; it flags no known record the listing names and no
\* new record.
C4_LostFlagged == [][C4_Step]_vars

\* one known record was lost, the other, listed, was not flagged
C4_Witness ==
  /\ FetchedOk
  /\ fh_ret = 0
  /\ lost = 1
  /\ Len(hdrs) = 2
  /\ hdrs[1].deleted /\ hdrs[1].refno = -1
  /\ ~hdrs[2].deleted /\ Listed(uidl_list, hdrs[2].uidl)

\* the listing gives a record known when the line arrives (from before, or
\* from an earlier line of this listing) an index it did not have
IndexMoved(h, lines) ==
  \E k \in 1..Len(lines) :
    LET before == {j \in 1..(k - 1) : lines[j].uidl = lines[k].uidl}
    IN IF before # {}
       THEN \E j \in before :
              /\ \A m \in before : m <= j
              /\ lines[j].num - 1 # lines[k].num - 1
       ELSE \E i \in 1..Len(h) :
              /\ h[i].uidl = lines[k].uidl
              /\ h[i].index # lines[k].num - 1

RingEmpty(c) == \A i \in 0..(POP_CACHE_LEN - 1) : c[i].path = NoPath

C5_Step ==
  /\ fetched' => (clear_cache' <=> IndexMoved(hdrs, uidl_list'))
  /\ cleared'
       => /\ clear_cache' => RingEmpty(cache')
          /\ ~clear_cache' => cache' = cache

\* C5: pop_fetch_headers leaves clear_cache set exactly when the listing gave
\* a known record another index than it had; the pop_clear_cache call that
\* a handler then makes empties every slot of the ring when the flag is set
\* and leaves the ring alone when it is not.
C5_ClearCache == [][C5_Step]_vars

\* a check whose listing moved a record flushed a ring that held a body
C5_Witness ==
  /\ fetched
  /\ cleared
  /\ clear_cache
  /\ unlinked > 0
  /\ RingEmpty(cache)

(***************************************************************************)
(* Properties of the trust engine.                                         *)
(***************************************************************************)
\* byte-equal: the same issuer name, subject name and SHA-256 digest
ByteEqual(c, d) ==
  c.issuer = d.issuer /\ c.subject = d.subject /\ c.md = d.md

InSession(c) ==
  \E i \in 1..Len(SslSessionCerts) : ByteEqual(SslSessionCerts[i], c)

InTrustFile(c) ==
  conf.CertificateFile /\ \E i \in 1..Len(trust_file) : ByteEqual(trust_file[i], c)

\* a dNSName or the Common Name of c matches hostname h
NameMatches(c, h) ==
  \E n \in {c.san[i] : i \in 1..Len(c.san)} \cup {c.cn} : hostname_match(h, n)

\* the hostname check is made for c at depth pos and fails
HostFails(c, pos, h) ==
  conf.SslVerifyHost /\ pos = 0 /\ ~NameMatches(c, h)

C6_Step ==
  (tev' = "ssl_verify_callback" /\ \E c \in accepted : ByteEqual(c, cb'.cert))
    => /\ cb_ret' = "accept"
       /\ tpc' # "prompt"
       /\ ~skip_marker'

\* C6: a callback for a certificate byte-equal to one the user accepted
\* earlier in the process, at any depth and on any connection, returns
\* accept, opens no prompt and leaves the skip marker cleared.
C6_AcceptedStaysTrusted == [][C6_Step]_vars

\* an accepted certificate came back as a leaf that fails pre-verification
\* and the hostname check, and was accepted
C6_Witness ==
  /\ tev = "ssl_verify_callback"
  /\ cb.cert \in accepted
  /\ ~cb.preverify_ok
  /\ HostFails(cb.cert, cb.pos, host)
  /\ cb_ret = "accept"

C7_Step ==
  /\ (/\ tev' = "ssl_verify_callback"
      /\ HostFails(cb'.cert, cb'.pos, host')
      /\ ~InSession(cb'.cert))
       => /\ tpc' = "prompt"
          /\ ~menu'.allow_always
          /\ cb_ret' = "none"
  /\ (/\ tpc = "prompt"
      /\ HostFails(cb.cert, cb.pos, host)
      /\ tev' = "interactive_check_cert")
       => /\ cb_ret' = "accept" <=> key' = "once"
          /\ key' \in {"reject", "exit", "abort"}
               => cb_ret' = "reject" /\ tpc' = "idle"
          /\ key' \notin {"once", "reject", "exit", "abort"}
               => tpc' = "prompt" /\ cb_ret' = "none"

\* C7: with hostname verification on, a leaf that is not in the session
\* trust sequence and has no name matching the host opens the prompt with
\* accept-always disabled; at that prompt the callback returns accept on
\* accept once only, and reject, exit and abort make it return reject,
\* which ends the handshake.
C7_HostMismatchPrompts == [][C7_Step]_vars

\* the user accepted a mismatching leaf once
C7_Witness ==
  /\ tev = "interactive_check_cert"
  /\ key = "once"
  /\ HostFails(cb.cert, cb.pos, host)
  /\ cb_ret = "accept"
  /\ cb.cert \in accepted

\* a callback for a certificate that is not in the session trust sequence and
\* is past the hostname check, with pre-verification failed or the marker set
C8_Case ==
  /\ tev' = "ssl_verify_callback"
  /\ ~cb'.preverify_ok \/ skip_marker
  /\ ~InSession(cb'.cert)
  /\ ~HostFails(cb'.cert, cb'.pos, host')

C8_Original_Step ==
  C8_Case =>
    /\ (cb_ret' = "accept" /\ tpc' # "prompt")
         <=> (InTrustFile(cb'.cert) /\ cb'.cert.validity = "valid")
    /\ cb_ret' = "accept" => ~skip_marker'
    /\ cb_ret' # "accept" => tpc' = "prompt"

\* C8 as stated: in that case the certificate is accepted without a prompt
\* if and only if it is byte-equal to one in the trust file and within its
\* validity dates, the acceptance clears the skip marker, and otherwise the
\* prompt opens.
C8_Original == [][C8_Original_Step]_vars

\* the second callback OpenSSL makes for the certificate just skipped
Duplicate ==
  /\ conf.SslVerifyPartialChains
  /\ skip_marker
  /\ cb'.preverify_ok
  /\ cb'.pos = last_pos
  /\ ByteEqual(cb'.cert, last_cert)

C8_Step ==
  C8_Case =>
    IF Duplicate
    THEN cb_ret' = "accept" /\ tpc' # "prompt" /\ skip_marker'
    ELSE /\ (cb_ret' = "accept" /\ tpc' # "prompt")
              <=> /\ InTrustFile(cb'.cert)
                  /\ cb'.cert.validity = "valid" \/ ~conf.SslVerifyDates
         /\ cb_ret' = "accept" => ~skip_marker'
         /\ cb_ret' # "accept" => tpc' = "prompt"

\* C8, amended: in that case the certificate is accepted without a prompt if
\* and only if it is byte-equal to one in the trust file and is within its
\* validity dates or $ssl_verify_dates is off; the acceptance clears the skip
\* marker and otherwise the prompt opens.  The repeated callback for the
\* certificate just skipped is apart: it is accepted without a prompt and
\* the marker stays set.
C8_TrustFileAccepts == [][C8_Step]_vars

\* with $ssl_verify_dates off an expired certificate of the trust file was
\* accepted without a prompt
C8_Witness ==
  /\ tev = "ssl_verify_callback"
  /\ ~cb.preverify_ok
  /\ ~conf.SslVerifyDates
  /\ cb.cert.validity = "expired"
  /\ InTrustFile(cb.cert)
  /\ ~InSession(cb.cert)
  /\ cb_ret = "accept"

C9_Step ==
  (tpc = "prompt" /\ tev' = "interactive_check_cert" /\ key' = "skip") =>
    IF conf.SslVerifyPartialChains /\ cb.pos > 0
    THEN /\ skip_marker'
         /\ cb_ret' = "accept"
         /\ tpc' = "verify"
         /\ SslSessionCerts' = SslSessionCerts
         /\ trust_file' = trust_file
    ELSE /\ tpc' = "prompt"
         /\ UNCHANGED <<SslSessionCerts, trust_file, skip_marker, cb_ret, menu>>

\* C9: the skip choice takes effect only with partial chains enabled and a
\* certificate at depth > 0: then it sets the skip marker and the callback
\* returns accept, with the session trust sequence and the trust file as
\* they were; otherwise nothing changes and the prompt stays open.
C9_SkipOnlyOffLeaf == [][C9_Step]_vars

\* a certificate above the leaf was skipped
C9_Witness ==
  /\ tev = "interactive_check_cert"
  /\ key = "skip"
  /\ cb.pos > 0
  /\ skip_marker
  /\ cb_ret = "accept"
  /\ ~InSession(cb.cert)

C10_Original_Step ==
  /\ (tpc' = "prompt" /\ menu'.allow_always)
       => /\ cb'.cert.validity = "valid"
          /\ conf.CertificateFile
          /\ ~HostFails(cb'.cert, cb'.pos, host')
  /\ trust_file' # trust_file
       => /\ tpc = "prompt" /\ menu.allow_always
          /\ tev' = "interactive_check_cert" /\ key' = "always"
          /\ trust_file' = Append(trust_file, cb.cert)

\* C10 as stated: the trust file changes only by an accept-always choice at
\* a prompt that offers it, and a prompt offers it only for a certificate
\* within its validity dates, with a trust file configured, when the prompt
\* was not raised by the hostname check.
C10_Original == [][C10_Original_Step]_vars

C10_Step ==
  /\ (tpc' = "prompt" /\ menu'.allow_always)
       => /\ cb'.cert.validity = "valid" \/ ~conf.SslVerifyDates
          /\ conf.CertificateFile
          /\ ~HostFails(cb'.cert, cb'.pos, host')
  /\ trust_file' # trust_file
       => /\ tpc = "prompt" /\ menu.allow_always
          /\ tev' = "interactive_check_cert" /\ key' = "always"
          /\ trust_file' = Append(trust_file, cb.cert)

\* C10, amended: as stated, but a prompt offers accept-always also for an
\* expired or not yet valid certificate when $ssl_verify_dates is off.
C10_TrustFileAppend == [][C10_Step]_vars

\* with $ssl_verify_dates off the user accepted an expired certificate
\* always, and it was appended to an empty trust file
C10_Witness ==
  /\ tev = "interactive_check_cert"
  /\ key = "always"
  /\ cb_ret = "accept"
  /\ ~conf.SslVerifyDates
  /\ cb.cert.validity = "expired"
  /\ trust_file = <<cb.cert>>

\* the choice k is made at the open prompt
Chosen(k) == tpc = "prompt" /\ tev' = "interactive_check_cert" /\ key' = k

\* the callback returns accept, the certificate joins the session trust
\* sequence and the skip marker is cleared
AcceptedStep ==
  /\ cb_ret' = "accept"
  /\ SslSessionCerts' = Append(SslSessionCerts, cb.cert)
  /\ skip_marker' = FALSE

C11_Original_Step ==
  /\ Chosen("once") => AcceptedStep /\ trust_file' = trust_file
  /\ (Chosen("always") /\ menu.allow_always)
       => AcceptedStep /\ trust_file' = Append(trust_file, cb.cert)

\* C11 as stated: accept once accepts, appends to the session trust sequence,
\* clears the skip marker and leaves the trust file; accept always does the
\* same and appends the certificate to the trust file.
C11_Original == [][C11_Original_Step]_vars

C11_Step ==
  /\ Chosen("once") => AcceptedStep /\ trust_file' = trust_file
  /\ (Chosen("always") /\ menu.allow_always)
       => /\ AcceptedStep
          /\ \/ notice' = "saved" /\ trust_file' = Append(trust_file, cb.cert)
             \/ notice' = "warning" /\ trust_file' = trust_file

\* C11, amended: accept once accepts, appends to the session trust sequence,
\* clears the skip marker and leaves the trust file; accept always, where the
\* prompt offers it, does the same and appends the certificate to the trust
\* file when the file can be opened and written, and otherwise warns that
\* the certificate could not be saved and leaves the file as it was.
C11_AcceptChoices == [][C11_Step]_vars

\* a leaf was accepted always and saved: it is in the session trust
\* sequence and in the trust file, and the marker is clear
C11_Witness ==
  /\ tev = "interactive_check_cert"
  /\ key = "always"
  /\ notice = "saved"
  /\ cb_ret = "accept"
  /\ ~skip_marker
  /\ cb.pos = 0
  /\ last_pos = 0
  /\ Len(SslSessionCerts) = 1
  /\ SslSessionCerts[1] = cb.cert
  /\ Len(trust_file) = 1
  /\ trust_file[1] = cb.cert

(***************************************************************************)
(* Properties of hostname_match.                                           *)
(***************************************************************************)
NoDot(x) == \A i \in 1..Len(x) : x[i] # "."

\* the certificate name has a leading "*."
IsWild(c) == Len(c) >= 2 /\ c[1] = "*" /\ c[2] = "."

\* h is X.S for an X without a dot, S compared ignoring case
OneLabelUnder(h, S) ==
  \E k \in 0..(Len(h) - 1) :
    /\ NoDot(SubSeq(h, 1, k))
    /\ h[k + 1] = "."
    /\ StrCaseEq(SubSeq(h, k + 2, Len(h)), S)

\* h is Y.X.S: what stands before ".S" has a dot in it
DeeperUnder(h, S) ==
  \E k \in 0..(Len(h) - 1) :
    /\ ~NoDot(SubSeq(h, 1, k))
    /\ h[k + 1] = "."
    /\ StrCaseEq(SubSeq(h, k + 2, Len(h)), S)

\* C12: for a certificate name *.A.B, hostname_match returns true exactly
\* for the hostnames X.A.B whose X has no dot, compared ignoring case, and
\* so neither for A.B nor for Y.X.A.B; for a certificate name without a
\* leading "*." it returns true only for a hostname equal to it ignoring
\* case.
C12_SingleLabelWildcard ==
  match_ret # "none" =>
    LET h == arg_hostname
        c == arg_certname
        S == SubSeq(c, 3, Len(c))
    IN /\ (IsWild(c) /\ S # <<>>) =>
            /\ match_ret = "true" <=> OneLabelUnder(h, S)
            /\ StrCaseEq(h, S) => match_ret = "false"
            /\ DeeperUnder(h, S) => match_ret = "false"
       /\ ~IsWild(c) => (match_ret = "true" => StrCaseEq(h, c))

\* a.A was matched against *.a
C12_Witness ==
  /\ match_ret = "true"
  /\ arg_hostname = <<"a", ".", "A">>
  /\ arg_certname = <<"*", ".", "a">>

(***************************************************************************)
(* Properties of pop_sync_mailbox.                                         *)
(***************************************************************************)
\* the step is a pass of the loop of pop_sync_mailbox
SyncPass == pc = "sync_loop" /\ status = "POP_CONNECTED"

IsDele(e) == e.cmd = "DELE"

IsQuit(e) == e.cmd = "QUIT"

\* the record is one sync has to delete on the server
ToDelete(r) == r.deleted /\ r.refno # -1

C13_Step ==
  SyncPass =>
    LET D == SelectSeq(sent', IsDele)
    IN /\ \A k \in 1..Len(D) :
            /\ D[k].i \in 1..Len(hdrs)
            /\ ToDelete(hdrs[D[k].i])
            /\ D[k].arg = hdrs[D[k].i].refno
       /\ \A k \in 1..(Len(D) - 1) : D[k].i < D[k + 1].i /\ D[k].ret = 0
       /\ \A i \in 1..Len(hdrs) :
            ToDelete(hdrs[i]) =>
              \/ \E k \in 1..Len(D) : D[k].i = i
              \/ \E k \in 1..Len(D) : D[k].ret # 0 /\ D[k].i < i

\* C13: in one pass of pop_sync_mailbox the DELE commands go out in
\* ascending record order, one for each record flagged deleted whose refno
\* is not -1, up to the first that is not answered +OK, each with the
\* record's refno; none goes out for a record with refno -1 or not flagged.
C13_DeleInOrder == [][C13_Step]_vars

\* two records were deleted, the first under the higher number, and QUIT
\* followed
C13_Witness ==
  /\ Len(sent) = 3
  /\ IsDele(sent[1]) /\ sent[1].i = 1 /\ sent[1].arg = 2
  /\ IsDele(sent[2]) /\ sent[2].i = 2 /\ sent[2].arg = 1
  /\ IsQuit(sent[3])

C14_Step ==
  /\ (pc = "sync_loop" /\ rv' = "0") =>
       /\ SyncPass
       /\ sent' # <<>>
       /\ IsQuit(sent'[Len(sent')]) /\ sent'[Len(sent')].ret = 0
       /\ \A k \in 1..Len(sent') : IsDele(sent'[k]) => sent'[k].ret = 0
       /\ status' = "POP_DISCONNECTED"
       /\ RingEmpty(cache')
  /\ SyncPass =>
       ((\E k \in 1..Len(sent') : IsQuit(sent'[k]))
          => \A k \in 1..Len(sent') : IsDele(sent'[k]) => sent'[k].ret = 0)

\* C14: pop_sync_mailbox returns success only from a pass of its loop in
\* which QUIT was answered +OK and so was every DELE; the session is then
\* Disconnected and every slot of the ring is empty.  No pass in which a
\* DELE failed sends QUIT.
C14_SuccessAfterQuit == [][C14_Step]_vars

\* a sync deleted a message, quit, and emptied a ring that held a file
C14_Witness ==
  /\ rv = "0"
  /\ Len(sent) = 2
  /\ IsDele(sent[1])
  /\ IsQuit(sent[2])
  /\ unlinked > 0
  /\ status = "POP_DISCONNECTED"
  /\ RingEmpty(cache)

C15_Step ==
  (SyncPass /\ \E k \in 1..Len(sent') : IsDele(sent'[k]) /\ sent'[k].ret = -2)
    => /\ \A i \in 1..Len(hdrs) :
            ToDelete(hdrs[i]) =>
              \E k \in 1..Len(sent') : IsDele(sent'[k]) /\ sent'[k].i = i
       /\ \E k \in 1..Len(sent') : IsQuit(sent'[k])
       /\ rv' # "-1"

\* C15: a DELE the server answers -ERR is harmless: the pass still sends
\* the DELEs of the remaining records, goes on to QUIT and does not return
\* failure for it.
C15_DeleErrHarmless == [][C15_Step]_vars

(***************************************************************************)
(* Properties of pop_fetch_message.                                        *)
(***************************************************************************)
\* the step is a pass of the loop of pop_fetch_message
FetchPass == pc = "fetch_loop" /\ status = "POP_CONNECTED"

IsRetr(e) == e.cmd = "RETR"

C16_Step ==
  (FetchPass /\ rv' = "0") =>
    LET h == hdrs[msg.msgno]
    IN /\ Len(sent') = 1
       /\ IsRetr(sent'[1])
       /\ \/ sent'[1].writer = "bcache" /\ h.uidl \in bcache'
          \/ /\ sent'[1].writer = "tmp"
             /\ cache'[Slot(h)].index = h.index
             /\ cache'[Slot(h)].path = "tmp"

\* C16: when pop_fetch_message returns success after a RETR, either the
\* body went through a body-cache writer and the body cache holds it under
\* the record's UIDL, or it went to a temp file that exists and whose path
\* is in ring slot (index mod ring size) with the record's index; whatever
\* writer and transport failures the earlier passes of the loop met.
C16_BodyCommitted == [][C16_Step]_vars

C17_Step ==
  /\ (FetchPass /\ sent' # <<>> /\ IsRetr(sent'[1])) =>
       /\ sent'[1].ret = -1 =>
            /\ pc' = "fetch_loop" /\ rv' = "none"
            /\ status' = "POP_DISCONNECTED"
            /\ msg'.msgno = msg.msgno
            /\ sent'[1].writer = "tmp" => msg'.path = "unlinked"
            /\ cache' = cache /\ bcache' = bcache
       /\ sent'[1].ret \in {-2, -3} =>
            /\ pc' = "open" /\ rv' = "-1"
            /\ cache' = cache /\ bcache' = bcache
  /\ (pc = "fetch_loop" /\ status # "POP_CONNECTED") =>
       /\ sent' = <<>>
       /\ \/ pc' = "fetch_loop" /\ rv' = "none" /\ status' = "POP_CONNECTED"
          \/ pc' = "open" /\ rv' = "-1"

C18_Step ==
  (FetchPass /\ hdrs[msg.msgno].refno = -1) =>
    /\ sent' = <<Cmd("mutt_error", msg.msgno, 0, 0, "none")>>
    /\ rv' = "-1"
    /\ pc' = "open"
    /\ UNCHANGED <<cache, bcache, status, hdrs>>

\* C18: a pass of the loop of pop_fetch_message (the record is in neither
\* the body cache nor the ring, and the connection is up) that finds the
\* record's refno to be -1 reports that the message index is incorrect and
\* returns failure: no RETR, no writer, nothing stored, no further pass.
C18_StaleIndex == [][C18_Step]_vars

\* the error was reported for a record with refno -1 while the body cache
\* could have taken the message
C18_Witness ==
  /\ rv = "-1"
  /\ Len(sent) = 1
  /\ sent[1].cmd = "mutt_error"
  /\ hdrs[sent[1].i].refno = -1
  /\ cachecfg.MessageCachedir

(***************************************************************************)
(* Where the driver reconnects and retries.                                *)
(***************************************************************************)
\* pop_fetch_headers failed with -1 in this step
HeadersLost == fetched' /\ fh_ret' = -1

\* a command of this step failed with -1
CommandLost == \E k \in 1..Len(sent') : sent'[k].ret = -1

\* the handler has not returned and its loop will reconnect
Retries(loop) ==
  pc' = loop /\ rv' = "none" /\ status' = "POP_DISCONNECTED"

\* what fetch-message, sync and check do after a transport failure
C19_Others ==
  /\ (FetchPass /\ CommandLost) => Retries("fetch_loop")
  /\ (SyncPass /\ CommandLost) => Retries("sync_loop")
  /\ (pc = "open" /\ HeadersLost) => (rv' = "-1" /\ pc' = "open")
  /\ (rv' = "none" /\ status = "POP_CONNECTED" /\ status' = "POP_DISCONNECTED")
       => pc' \in {"open_loop", "fetch_loop", "sync_loop"}

C19_Original_Step ==
  /\ C19_Others
  /\ (pc = "open_loop" /\ HeadersLost) => rv' = "-1"

\* C19 as stated: only fetch-message and sync reconnect and retry after a
\* transport failure; open mailbox and check return the failure.
C19_Original == [][C19_Original_Step]_vars

C19_Step ==
  /\ C19_Others
  /\ (pc = "open_loop" /\ HeadersLost) => Retries("open_loop")

\* C19: after a transport failure fetch-message, sync and open mailbox stay
\* in their loop, which reconnects and tries again; check returns the
\* failure to its caller; no other handler is left waiting for a reconnect.
C19_RetryLoops == [][C19_Step]_vars

\* pop_open_mailbox is in its loop after pop_fetch_headers lost the
\* connection, about to reconnect
C19_Witness ==
  /\ pc = "open_loop"
  /\ rv = "none"
  /\ fetched
  /\ fh_ret = -1
  /\ status = "POP_DISCONNECTED"

(***************************************************************************)
(* The sweep of the caches by pop_fetch_headers.                           *)
(***************************************************************************)
\* the step is a pop_check_mailbox that ran pop_fetch_headers
CheckStep == pc = "open" /\ rv = "none" /\ fetched'

\* the UIDLs the server listed in this step
SessionUidls == {uidl_list'[k].uidl : k \in 1..Len(uidl_list')}

\* a record of h carries the id
Carried(h, id) == \E i \in 1..Len(h) : h[i].uidl = id

\* the sweep stopped at an entry the body cache failed to delete
DelFailed ==
  \E k \in 1..Len(sent') : sent'[k].cmd = "bcache_del" /\ sent'[k].ret # 0

C20_Original_Step ==
  (synced /\ CheckStep /\ fh_ret' >= 0) =>
    /\ bcache' \subseteq SessionUidls
    /\ hcache' \subseteq SessionUidls

\* C20 as stated: the fetch-headers that follows a sync whose QUIT
\* succeeded leaves no body-cache entry and no header-cache entry whose UIDL
\* the new session does not list.
C20_Original == [][C20_Original_Step]_vars

C20_Step ==
  CheckStep =>
    /\ hcache \subseteq hcache'
    /\ bcache' \subseteq bcache
    /\ \A id \in bcache \ bcache' : ~Carried(hdrs', id)
    /\ bcache' # bcache =>
         fh_ret' >= 0 /\ cachecfg.MessageCacheClean
    /\ (fh_ret' >= 0 /\ cachecfg.MessageCacheClean /\ ~DelFailed) =>
         bcache' = {id \in bcache : Carried(hdrs', id)}
    /\ (\A id \in bcache : Carried(hdrs, id)) => bcache' = bcache

\* C20: pop_fetch_headers evicts nothing from the header cache.  From the
\* body cache it evicts only when it succeeds and $message_cache_clean is
\* set, and only entries whose UIDL no record of the mailbox carries: all
\* of them, unless the body cache fails to delete one.  Run on a body cache
\* without such entries, as a complete sweep leaves it, it evicts nothing.
C20_OrphanSweep == [][C20_Step]_vars

\* after a sync that deleted AAA and quit, the check swept BBB, which no
\* record carries, out of the body cache and left it in the header cache
C20_Witness ==
  /\ synced
  /\ fetched
  /\ fh_ret >= 0
  /\ cachecfg.MessageCacheClean
  /\ Len(hdrs) = 1
  /\ hdrs[1].uidl = "AAA"
  /\ hdrs[1].deleted
  /\ bcache = {}
  /\ hcache = {"BBB"}

(***************************************************************************)
(* The rate limit of pop_check_mailbox.                                    *)
(***************************************************************************)
\* pop_check_mailbox runs from its call to its return in this step
CheckCall == pc = "open" /\ rv = "none" /\ rv' # "none"

C24_Step ==
  (CheckCall /\ now < check_time + PopCheckinterval) =>
    /\ rv' = "0"
    /\ sent' = <<>>
    /\ ~fetched'
    /\ ~cleared'
    /\ unlinked' = 0
    /\ UNCHANGED <<hdrs, clear_cache, cache, status, pc, msg, cachecfg,
                   bcache, hcache, check_time, synced>>

\* C24: pop_check_mailbox called while now < check_time + interval sends no
\* command, leaves the connection as it is, changes no record, no ring
\* slot, no cache and no field of the session, and returns 0 (no change).
C24_EarlyCheckIdle == [][C24_Step]_vars

\* a check that came less than the interval after the one that set
\* check_time returned 0 on a live connection without having fetched
C24_Witness ==
  /\ rv = "0"
  /\ pc = "open"
  /\ ~fetched
  /\ check_time > 0
  /\ now < check_time + PopCheckinterval
  /\ status = "POP_CONNECTED"

C25_Step ==
  /\ (fetched' /\ fh_ret' < 0) => check_time' = check_time
  /\ check_time' > check_time => (fetched' /\ fh_ret' >= 0)

\* C25: check_time moves forward only in a step whose pop_fetch_headers
\* succeeds; a pop_fetch_headers that fails leaves it as it was.
C25_CheckTimeOnSuccess == [][C25_Step]_vars

(***************************************************************************)
(* Properties of the capability probes.                                    *)
(***************************************************************************)
\* the step is a call of one of the two probing functions
ProbeCall == probe'.fn \in {"pop_fetch_headers", "pop_read_header"}

\* the answer the step got to this command, "none" if it did not send it
Answer(c) ==
  IF \E k \in 1..Len(probe'.sent) : probe'.sent[k].cmd = c
  THEN LET k == CHOOSE k \in 1..Len(probe'.sent) : probe'.sent[k].cmd = c
       IN IF probe'.sent[k].ret = 0 THEN "+OK"
          ELSE IF probe'.sent[k].ret = -2 THEN "-ERR"
          ELSE IF probe'.sent[k].ret = -1 THEN "lost"
          ELSE "tempfile"
  ELSE "none"

\* a capability c going to c2 on the answer a to its command
Moves(c, c2, a) ==
  /\ c # 2 => c2 = c
  /\ (c = 2 /\ a = "+OK") => c2 = 1
  /\ (c = 2 /\ a = "-ERR") => c2 = 0
  /\ (c = 2 /\ a \notin {"+OK", "-ERR"}) => c2 = 2

C21_Step ==
  ProbeCall =>
    /\ Moves(cmd_uidl, cmd_uidl', Answer("UIDL"))
    /\ Moves(cmd_top, cmd_top', Answer("TOP"))

\* C21: a call of pop_fetch_headers or pop_read_header leaves a capability
\* that is present or absent as it is; it turns an unknown one present when
\* the capability's command is answered +OK and absent when it is answered
\* -ERR, and leaves it unknown otherwise (the command is not sent, the
\* connection is lost, the temp file cannot be written).
C21_CapabilitySticky == [][C21_Step]_vars

\* UIDL is present and TOP absent, and the last TOP was answered +OK all the
\* same
C21_Witness ==
  /\ cmd_uidl = 1
  /\ cmd_top = 0
  /\ probe.fn = "pop_read_header"
  /\ Len(probe.sent) = 2
  /\ probe.sent[2].cmd = "TOP"
  /\ probe.sent[2].ret = 0

C22_Step ==
  (probe'.fn = "pop_read_header" /\ cmd_top = 0) =>
    /\ Answer("TOP") = "none"
    /\ Answer("LIST") = "+OK" => Answer("RETR") # "none"
    /\ Answer("RETR") = "+OK" => (probe'.env /\ probe'.rc = 0)

\* C22: with TOP absent pop_read_header does not send TOP: it retrieves the
\* message with RETR and reads the header from it.
C22_RetrWhenTopAbsent == [][C22_Step]_vars

C23_Step ==
  (/\ probe'.fn = "pop_fetch_headers"
   /\ Answer("UIDL") = "+OK"
   /\ probe'.listed = 0
   /\ probe'.count > 0
   /\ cmd_uidl = 2) => cmd_uidl' # 1

\* C23: a UIDL answered +OK that lists no message on a server that holds
\* messages does not make an unknown UIDL capability present.
C23_EmptyUidlUnsupported == [][C23_Step]_vars

\* the bytes the peer has sent that no read has handed out yet
Pending ==
  (IF conn.bufpos < conn.available
   THEN SubSeq(conn.inbuf, conn.bufpos + 1, conn.available) ELSE <<>>)
  \o stream

\* the line that ends at the n-th byte: the bytes before it, less one \r
\* or none
LineOf(p, n) ==
  IF n > 1 /\ p[n - 1] = "CR" THEN SubSeq(p, 1, n - 2) ELSE SubSeq(p, 1, n - 1)

\* C26: for every input stream and buffer capacity, a successful
\* mutt_socket_readln_d stores exactly one logical line, the bytes up to the
\* first \n with the trailing \r\n or \n removed, and returns the number of
\* bytes it took from the stream, the line terminator included.
C26_Step ==
  (io'.fn = "readln" /\ io'.ret > 0) =>
    \E n \in 1..Len(Pending) :
      /\ Pending[n] = "LF"
      /\ \A m \in 1..(n - 1) : Pending[m] # "LF"
      /\ io'.line = LineOf(Pending, n)
      /\ io'.consumed = n
      /\ io'.ret = n

C26_ReadlnCountsBytes == [][C26_Step]_vars

IsRead(r) == r.fn \in {"readchar", "readln"}

\* the parts of C27 that do not depend on what closed the connection:
\* a failing conn_read or conn_write makes the call return -1 and closes
\* the connection, and on a closed connection a write returns -1 and no
\* call reaches conn_read or conn_write
C27_Common ==
  /\ (IsRead(io') /\ closed_by # "read" /\ closed_by' = "read") =>
       (io'.ret = -1 /\ conn'.fd = -1)
  /\ (io'.fn = "write" /\ closed_by # "write" /\ closed_by' = "write") =>
       (io'.ret = -1 /\ conn'.fd = -1)
  /\ (conn.fd < 0 /\ io'.fn = "write") => (io'.ret = -1 /\ io'.writes = 0)
  /\ (conn.fd < 0 /\ IsRead(io')) => io'.reads = 0

\* C27 as claimed: when conn_read returns 0 or an error the read returns an
\* error and the connection is closed (fd = -1); from then on every read
\* and every write fails without calling the transport, until the connection
\* is opened again; the same holds after a failed conn_write.
C27_Original_Step ==
  /\ C27_Common
  /\ (conn.fd < 0 /\ IsRead(io')) => io'.ret = -1

NeedsByte(r) == r.fn = "readchar" \/ (r.fn = "readln" /\ r.buflen >= 2)

C27_Step ==
  /\ C27_Common
  /\ (conn.fd < 0 /\ NeedsByte(io') /\ closed_by = "read") => io'.ret = -1
  /\ (conn.fd < 0 /\ NeedsByte(io') /\ conn.bufpos >= conn.available) =>
       io'.ret = -1
  /\ (conn.fd < 0 /\ io'.fn = "readln" /\ io'.ret > 0) =>
       (io'.consumed = 0 \/ io'.consumed <= conn.available - conn.bufpos)

C28_Step ==
  /\ Len(SslSessionCerts) <= Len(SslSessionCerts')
  /\ SubSeq(SslSessionCerts', 1, Len(SslSessionCerts)) = SslSessionCerts

C28_AppendOnly == [][C28_Step]_vars

\* a connection was closed with two certificates accepted in the process
C28_Witness ==
  /\ tev = "ssl_socket_close"
  /\ Len(SslSessionCerts) >= 2

\* the callback of this step is for the certificate and depth of the
\* callback before it
SameAsBefore ==
  /\ cb # NoCall
  /\ ByteEqual(cb'.cert, cb.cert)
  /\ cb'.pos = cb.pos

\* C29: with partial chains enabled, a callback for the certificate of the
\* callback before it, at the same depth, with preverify_ok = 1 and the skip
\* marker set, accepts without a prompt and leaves the skip marker, the
\* session trust sequence and the trust file as they were.  With the marker
\* set no other callback accepts and leaves it set; with the marker clear a
\* repeated leaf that fails the hostname check is prompted for all the same.
C29_Step ==
  tev' = "ssl_verify_callback" =>
    /\ (/\ conf.SslVerifyPartialChains
        /\ skip_marker
        /\ cb'.preverify_ok
        /\ SameAsBefore)
         => /\ cb_ret' = "accept"
            /\ tpc' = "verify"
            /\ skip_marker'
            /\ SslSessionCerts' = SslSessionCerts
            /\ trust_file' = trust_file
    /\ (skip_marker /\ skip_marker' /\ cb_ret' = "accept")
         => /\ conf.SslVerifyPartialChains
            /\ cb'.preverify_ok
            /\ SameAsBefore
    /\ (/\ ~skip_marker
        /\ cb'.preverify_ok
        /\ SameAsBefore
        /\ HostFails(cb'.cert, cb'.pos, host')
        /\ ~InSession(cb'.cert))
         => tpc' = "prompt"

C29_DuplicateSuppressed == [][C29_Step]_vars

\* a skipped certificate came again at its depth, pre-verified, and was
\* accepted with the skip marker still set
C29_Witness ==
  /\ tev = "ssl_verify_callback"
  /\ conf.SslVerifyPartialChains
  /\ skip_marker
  /\ cb.preverify_ok
  /\ cb.pos = last_pos
  /\ cb.cert = last_cert
  /\ cb_ret = "accept"
  /\ ~InSession(cb.cert)

RECURSIVE Canon(_)
\* the claim's rules as rewriting: the leftmost ".." goes with the
\* component before it, or alone at the root; then a trailing "/" goes
\* unless the path is "/"
Canon(p) ==
  IF \E i \in 1..Len(p) : p[i] = ".."
  THEN LET i == CHOOSE k \in 1..Len(p) :
                  p[k] = ".." /\ \A j \in 1..(k - 1) : p[j] # ".."
           rest == IF i = 2 THEN SubSeq(p, 3, Len(p))
                   ELSE SubSeq(p, 1, i - 4) \o SubSeq(p, i + 1, Len(p))
       IN Canon(IF rest = <<>> THEN <<"/">> ELSE rest)
  ELSE IF Len(p) > 1 /\ p[Len(p)] = "/" THEN SubSeq(p, 1, Len(p) - 1)
  ELSE p

RingReturn ==
  /\ pc = "open" /\ rv = "none" /\ rv' = "0"
  /\ sent' # <<>>
  /\ sent'[1].cmd = "fopen"

\* C31: with no body cache, the file pop_fetch_message returns from the
\* fallback ring was retrieved for the UIDL of the requested record,
\* whatever fetches, checks, reconnects and syncs came before.
C31_Step == RingReturn => sent'[1].writer = hdrs[sent'[1].i].uidl

C31_RingFileOfRecord == [][C31_Step]_vars

(***************************************************************************)
(* Properties of the header loop of pop_fetch_headers.                     *)
(***************************************************************************)
\* the headers the loop has counted: ctx->hdrs[0 .. ctx->msgcount)
Counted == 1..hloop.msgcount

\* C32: the flags of every new header the loop has counted depend on the
\* cache state of that header alone: read when its body is in the body
\* cache; else old when its own header was found in the header cache and
\* $mark_old is set; else neither, whatever the headers before it in the
\* run were.
C32_OwnCacheState ==
  \A k \in Counted :
    LET h == lhdrs[k]
    IN /\ h.read = (h.uidl \in bodies)
       /\ h.old = (h.uidl \notin bodies /\ h.env = "hcache" /\ MarkOld)

\* C38: a header restored from the header cache has the refno and the index
\* the UIDL listing of this run gave it and the UIDL it was looked up by,
\* and its read and old flags are those of the caches of now, not those it
\* was stored with.
C38_RestoredKeepsListing ==
  \A k \in Counted :
    LET h == lhdrs[k]
    IN h.env = "hcache" =>
         /\ h.refno = listed_hdrs[k].refno
         /\ h.index = listed_hdrs[k].index
         /\ h.uidl = listed_hdrs[k].uidl
         /\ h.read = (h.uidl \in bodies)
         /\ h.old = (h.uidl \notin bodies /\ MarkOld)

\* a counted header was restored from a cache entry numbered and flagged
\* otherwise than the header is now
C38_Witness ==
  \E k \in Counted :
    LET h == lhdrs[k]
        st == hcache_hdrs[h.uidl]
    IN /\ h.env = "hcache"
       /\ st.refno # h.refno
       /\ st.read # h.read
       /\ st.old # h.old

\* C40: a step that counts a new header counts one whose envelope is there,
\* from the header cache or from the server, and one read from the server
\* was in the header cache before the step; the return of a loop that
\* failed drops the headers not counted and leaves the counted ones.
C40_Step ==
  /\ hloop'.msgcount # hloop.msgcount =>
        /\ hloop'.msgcount = hloop.msgcount + 1
        /\ LET h == lhdrs'[hloop'.msgcount]
           IN /\ h.env # "none"
              /\ h.env = "server" => hcache_hdrs[h.uidl] # NoHdr
  /\ hloop'.at = "done" /\ hloop'.ret < 0 =>
        /\ hloop'.msgcount = hloop.msgcount
        /\ Len(lhdrs') = hloop.msgcount
        /\ \A k \in Counted : lhdrs'[k] = lhdrs[k]

C40_CountedAfterEnvelope == [][C40_Step]_vars

\* the loop failed at its second header: the first, read from the server,
\* stays counted and the second is gone
C40_Witness ==
  /\ hloop.at = "done"
  /\ hloop.ret < 0
  /\ hloop.msgcount = 1
  /\ Len(listed_hdrs) = 2
  /\ Len(lhdrs) = 1
  /\ lhdrs[1].env = "server"

(***************************************************************************)
(* The caches after pop_sync_mailbox.                                      *)
(***************************************************************************)
\* C33: when pop_sync_mailbox returns success, neither the header cache nor
\* the body cache holds an entry under the UIDL of a record whose DELE the
\* server answered +OK in that pass, the records whose changed flag is set
\* included.
C33_Step ==
  pc = "sync_loop" /\ rv' = "0" =>
    \A u \in Deleted(hdrs, sent') : u \notin hcache' /\ u \notin bcache'

C33_DeletedLeaveCaches == [][C33_Step]_vars

(***************************************************************************)
(* The bytes a closed connection leaves in inbuf.                          *)
(***************************************************************************)
\* C34: once a connection has been closed, by mutt_socket_close or by a
\* failed write, no byte it had left in inbuf is handed out by
\* mutt_socket_readchar or mutt_socket_readln_d or counted by
\* mutt_socket_poll, before the connection is opened again or after: what
\* a read returns after the reconnect are bytes of the new connection only.
C34_Step ==
  /\ IsRead(io') => ~io'.stale
  /\ io'.fn = "poll" /\ io'.stale => io'.ret <= 0

C34_NoStaleBytes == [][C34_Step]_vars

(***************************************************************************)
(* The leaf and the host of the connection.                                *)
(***************************************************************************)
\* the step is a callback on a leaf, with $ssl_verify_host set, that returns
\* 1 without opening the prompt
LeafAcceptedSilently ==
  /\ tpc = "verify"
  /\ tev' = "ssl_verify_callback"
  /\ cb'.pos = 0
  /\ conf.SslVerifyHost
  /\ tpc' = "verify"
  /\ cb_ret' = "accept"

\* C35 as claimed: with hostname verification on, the callback accepts a
\* leaf without a prompt only if a dNSName or the Common Name of the
\* certificate matches the host of the connection, whatever connections the
\* process made before.
C35_Original_Step == LeafAcceptedSilently => NameMatches(cb'.cert, host)

C35_Original == [][C35_Original_Step]_vars

\* C35: with hostname verification on, the callback accepts a leaf without
\* a prompt only if a dNSName or the Common Name of the certificate matches
\* the host of the connection, or the session trust sequence holds a copy of
\* the certificate already (same subject, issuer and SHA-256 digest): a leaf
\* accepted at the prompt for one host is accepted without prompt and
\* without hostname check on every later connection of the process, to
\* whatever host.
C35_Step ==
  LeafAcceptedSilently =>
    \/ NameMatches(cb'.cert, host)
    \/ \E i \in 1..Len(SslSessionCerts) :
         compare_certificates(SslSessionCerts[i], cb'.cert)

C35_LeafNeedsHostOrSession == [][C35_Step]_vars

\* a leaf that is not in the session trust sequence was accepted by the
\* callback itself on a connection to a host its names match
C35_Witness ==
  /\ tev = "ssl_verify_callback"
  /\ cb.pos = 0
  /\ conf.SslVerifyHost
  /\ cb_ret = "accept"
  /\ tpc = "verify"
  /\ NameMatches(cb.cert, host)
  /\ \A i \in 1..Len(SslSessionCerts) :
       ~compare_certificates(SslSessionCerts[i], cb.cert)

(***************************************************************************)
(* The certificates that follow a skipped one.                             *)
(***************************************************************************)
\* the step is a callback that finds the skip marker set and is not the
\* certificate just skipped presented again
CallbackAfterSkip ==
  /\ tpc = "verify"
  /\ tev' = "ssl_verify_callback"
  /\ skip_marker
  /\ ~(cb'.preverify_ok /\ SameAsBefore)

\* C36: a skip does not make the chain trusted.  A callback that finds the
\* skip marker set, the certificate just skipped presented again apart,
\* accepts only a certificate of the session trust sequence or of the trust
\* file and opens the prompt otherwise, preverify_ok = 1 or not; an accept
\* for the leaf leaves the marker clear; and within a handshake the marker
\* is cleared only by such a callback or by accept once / accept always at
\* the prompt.
C36_Step ==
  /\ CallbackAfterSkip =>
        /\ cb_ret' = "accept" =>
             /\ ~skip_marker'
             /\ InSession(cb'.cert) \/ InTrustFile(cb'.cert)
        /\ cb_ret' # "accept" => tpc' = "prompt"
  /\ (tev' \in {"ssl_verify_callback", "interactive_check_cert"}
        /\ cb'.pos = 0 /\ cb_ret' = "accept") => ~skip_marker'
  /\ (skip_marker /\ ~skip_marker' /\ tev' # "ssl_negotiate") =>
        \/ /\ tev' = "ssl_verify_callback"
           /\ InSession(cb'.cert) \/ InTrustFile(cb'.cert)
        \/ /\ tev' = "interactive_check_cert"
           /\ key' \in {"once", "always"}
           /\ cb_ret' = "accept"

C36_SkipNotTrust == [][C36_Step]_vars

\* after a skip the leaf came with preverify_ok = 1 and names that match
\* the host, and the prompt opened for it
C36_Witness ==
  /\ tev = "ssl_verify_callback"
  /\ skip_marker
  /\ cb.pos = 0
  /\ cb.preverify_ok
  /\ NameMatches(cb.cert, host)
  /\ tpc = "prompt"

(***************************************************************************)
(* Properties of pop_fetch_mail.                                           *)
(***************************************************************************)
\* the places of the log where cmd was sent
Sent(cmd) == {k \in 1..Len(drain_log) : drain_log[k].cmd = cmd}

\* the DELE at place d of the log takes effect: it was answered +OK and a
\* QUIT follows it with no RSET between the two
Effective(d) ==
  /\ drain_log[d].cmd = "DELE"
  /\ drain_log[d].ret = 0
  /\ \E q \in Sent("QUIT") :
       q > d /\ \A r \in Sent("RSET") : ~(d < r /\ r < q)

\* a write to the temp file or the commit to the spool failed at place f
WriteFailed(f) ==
  \/ drain_log[f].cmd = "RETR" /\ drain_log[f].ret = -3
  \/ drain_log[f].cmd = "commit" /\ drain_log[f].ret # 0

\* C37: in pop_fetch_mail a DELE takes effect only for a message whose RETR
\* succeeded and whose commit to the spool succeeded, both before the DELE,
\* and only when $pop_delete was answered yes; a QUIT that follows a failed
\* write to the temp file or a failed commit has a RSET before it; and
\* nothing is sent, QUIT included, after a transport failure.
C37_DrainIsSafe ==
  /\ \A d \in 1..Len(drain_log) :
       Effective(d) =>
         /\ drain.delanswer = "MUTT_YES"
         /\ \E r \in Sent("RETR"), c \in Sent("commit") :
              /\ r < c /\ c < d
              /\ drain_log[r].n = drain_log[d].n /\ drain_log[r].ret = 0
              /\ drain_log[c].n = drain_log[d].n /\ drain_log[c].ret = 0
  /\ \A f \in 1..Len(drain_log), q \in Sent("QUIT") :
       (WriteFailed(f) /\ f < q) => \E r \in Sent("RSET") : f < r /\ r < q
  /\ \A t \in 1..Len(drain_log) :
       drain_log[t].ret = -1 /\ drain_log[t].cmd # "commit" =>
         t = Len(drain_log)

\* the call has returned and a DELE took effect
C37_Witness ==
  /\ drain.at = "done"
  /\ \E d \in 1..Len(drain_log) : Effective(d)

(***************************************************************************)
(* The sweep of the body cache, entry by entry.                            *)
(***************************************************************************)
\* the step ran pop_fetch_headers
FetchHeadersStep == rv = "none" /\ fetched'

\* what msg_cache_check keeps: the header cache file and the ids that a
\* record of the mailbox carries, flagged deleted or not
SweepKeeps(id) == id = "neomutt.hcache" \/ Carried(hdrs', id)

\* C39 as claimed: the sweep runs only after a pop_fetch_headers that
\* succeeded with $message_cache_clean set; it keeps every id of the body
\* cache that is the UIDL of a record of the mailbox or the name of the
\* header cache file and deletes every other id; a pop_fetch_headers that
\* failed deletes nothing.
C39_Original_Step ==
  FetchHeadersStep =>
    /\ bcache' # bcache => fh_ret' >= 0 /\ cachecfg.MessageCacheClean
    /\ (fh_ret' >= 0 /\ cachecfg.MessageCacheClean) =>
         bcache' = {id \in bcache : SweepKeeps(id)}

C39_Original == [][C39_Original_Step]_vars

\* C39: the same, but for a mutt_bcache_del that fails: the sweep stops
\* there, and the entry it failed on and the entries it had not reached
\* stay, whatever their ids.  Nothing that is to be kept is ever deleted and
\* nothing is added.
C39_Step ==
  FetchHeadersStep =>
    /\ bcache' # bcache => fh_ret' >= 0 /\ cachecfg.MessageCacheClean
    /\ (fh_ret' >= 0 /\ cachecfg.MessageCacheClean /\ ~DelFailed) =>
         bcache' = {id \in bcache : SweepKeeps(id)}
    /\ {id \in bcache : SweepKeeps(id)} \subseteq bcache'
    /\ bcache' \subseteq bcache

C39_SweepById == [][C39_Step]_vars

\* a check with $message_cache_clean set swept an id no record carries and
\* left the header cache file and the body of a record flagged deleted
C39_Witness ==
  /\ fetched
  /\ fh_ret >= 0
  /\ cachecfg.MessageCacheClean
  /\ "neomutt.hcache" \in bcache
  /\ \E u \in UIDLs : u \notin bcache
  /\ \E i \in 1..Len(hdrs) : hdrs[i].deleted /\ hdrs[i].uidl \in bcache

====
